---- MODULE Spec2Model ----
(***************************************************************************)
(* The Keson spectral improver bot.  Its audio quality analysis engine:    *)
(* the verdict classifier, the dynamic-range estimator, the max-frequency  *)
(* detector, the report builder and the analyzeTrackQuality pipeline; and  *)
(* the bot around it: the task queue, handleDownloadJob and the password   *)
(* gate of the update handlers.                                            *)
(*                                                                         *)
(* Numbers.  Frequencies and sample rates are integers in Hz.  Every       *)
(* comparison the code makes between maxFreq and a fraction of the Nyquist *)
(* frequency is decided here in exact integer arithmetic, e.g.             *)
(*   maxFreq / (sampleRate / 2) >= 0.78   <=>   200*maxFreq >= 78*rate.    *)
(* Samples are integers in -FullScale..FullScale (FullScale stands for     *)
(* 1.0); a channel is run-length encoded, a sequence of runs               *)
(* [value, count], and the per-block loops of the code are evaluated run   *)
(* by run.  Decibel values are kept symbolic (log10 is not computed).      *)
(***************************************************************************)
EXTENDS Integers, Sequences, FiniteSets, TLC

VARIABLES
    call,       \* pure-function specifications: the function applied and its arguments
    ret,        \* pure-function specifications: its outcome (NoRet before the call)
    pc,         \* analyzeTrackQuality: position in the async function
    meta,       \* decodeAudioData: result of probeAudioStream
    pcm,        \* decodeAudioData: result of decodeToFloat32 (NoRet before it)
    audio,      \* analyzeTrackQuality: result of decodeAudioData
    maxFreq,    \* analyzeTrackQuality: result of detectMaxFrequency
    verdict,    \* analyzeTrackQuality: result of classifyVerdict
    dr,         \* analyzeTrackQuality: drStatus, dynamicRange, avgPeakDb, avgRmsDb
    lufs,       \* analyzeTrackQuality: result of measureIntegratedLoudness
    report,     \* analyzeTrackQuality: settled value of the returned promise
    started,    \* analyzeTrackQuality: the analyses called so far
    MAX_CONCURRENT_DOWNLOADS,   \* configuration read at startup
    MAX_PENDING_DOWNLOADS,      \* configuration read at startup
    active,     \* createTaskQueue: tasks taken from the queue and not yet settled
    queue,      \* createTaskQueue: the waiting entries, oldest first
    tasks,      \* createTaskQueue: what became of every task handed to add
    authorizedUsers,    \* the Set of user ids allowed to download
    awaitingPassword,   \* the Set of user ids that were prompted
    updates,    \* the updates received, each with the position of its handler
    ENABLE_QUALITY_ANALYSIS,    \* configuration read at startup
    job,        \* handleDownloadJob: position and locals of one call
    downloadCount,      \* the counter incrementDownloadCount adds to
    authorizedUsersDirty,       \* authorizedUsers changed since the last completed save
    persistAuthorizedUsersTimer,    \* the debounce timer is armed
    persistCalls,       \* the calls of persistAuthorizedUsers, each with its position
    authStore,          \* the user ids in the file at AUTH_STORE_PATH
    tempFiles,          \* the temporary files next to it, by the time in their name
    isShuttingDown,     \* a shutdown signal was received
    shutdown,           \* position of the signal handler
    FFT_TABLE_CACHE,    \* Map of the twiddle tables by FFT size
    SG_COEFF_CACHE,     \* Map of the Savitzky-Golay coefficients by window:order
    computed,           \* how often each kind of table was computed in this process
    analyses,           \* the analyses of this process, each with its position
    playlistSessions,   \* the ids of the sessions in the Map playlistSessions
    session,            \* the session object of the playlist request
    calls,              \* the calls of enqueueNextTrack and of the callback handler
    observed,           \* what left the process: submissions, prompts, documents
    ytdlpInstancePromise,   \* downloader: the promise of the yt-dlp instance
    provisioning,       \* downloader: the calls of ensureYtDlpBinary
    getters             \* downloader: the calls of getYtDlp, each with its position

pipelineVars == <<pc, meta, pcm, audio, maxFreq, verdict, dr, lufs, report, started>>

queueVars == <<MAX_CONCURRENT_DOWNLOADS, MAX_PENDING_DOWNLOADS, active, queue, tasks>>

gateVars == <<authorizedUsers, awaitingPassword, updates>>

jobVars == <<ENABLE_QUALITY_ANALYSIS, job, downloadCount>>

persistRunVars == <<persistCalls, authStore, tempFiles, isShuttingDown, shutdown>>

persistVars == <<authorizedUsersDirty, persistAuthorizedUsersTimer, persistRunVars>>

cacheVars == <<FFT_TABLE_CACHE, SG_COEFF_CACHE, computed, analyses>>

sessionVars == <<playlistSessions, session, calls, observed>>

downloaderVars == <<ytdlpInstancePromise, provisioning, getters>>

botVars == <<queueVars, gateVars, jobVars, persistVars, cacheVars, sessionVars,
             downloaderVars>>

vars == <<call, ret, pipelineVars, botVars>>

-----------------------------------------------------------------------------
(* JavaScript values *)

\* null / undefined / NaN / +-Infinity / a finite number
Null == [kind |-> "null", num |-> 0]

Undefined == [kind |-> "undefined", num |-> 0]

NaN == [kind |-> "NaN", num |-> 0]

PosInfinity == [kind |-> "Infinity", num |-> 0]

NegInfinity == [kind |-> "-Infinity", num |-> 0]

Finite(n) == [kind |-> "finite", num |-> n]

\* Number.isFinite(value)
NumberIsFinite(value) == value.kind = "finite"

NoRet == [kind |-> "none"]

Return(v) == [kind |-> "return", value |-> v]

Throw(e) == [kind |-> "throw", error |-> e]

Max(a, b) == IF a >= b THEN a ELSE b

Min(a, b) == IF a <= b THEN a ELSE b

Abs(a) == IF a < 0 THEN -a ELSE a

\* Math.ceil(a / b) for a >= 0, b > 0
CeilDiv(a, b) == (a + b - 1) \div b

-----------------------------------------------------------------------------
(* Verdict classifier *)

VerdictKeys ==
    {"fake", "likely_fake", "maybe_fake", "maybe_authentic", "likely_authentic",
     "authentic", "aac_256", "sub_aac_lossy", "unknown"}

Verdict(key, label) == [verdictKey |-> key, verdictLabel |-> label]

\* the fixed reference of the last table
reference == 22050

\* mutant: the 99% cut point belongs to likely_authentic (<= instead of <)
table48000_inclusive99(sampleRate, f) ==
    IF f < 20000 THEN Verdict("fake", "Fake")
    ELSE IF 4 * f < sampleRate THEN Verdict("likely_fake", "Most likely Fake")
    ELSE IF 10 * f < 4 * sampleRate THEN Verdict("maybe_fake", "Might be Fake")
    ELSE IF 20 * f < 9 * sampleRate THEN Verdict("maybe_authentic", "Might be Authentic")
    ELSE IF 200 * f <= 99 * sampleRate
         THEN Verdict("likely_authentic", "Most likely Authentic")
    ELSE Verdict("authentic", "Authentic")

\* sampleRate === 48000 table; f is finite
table48000(sampleRate, f) ==
    IF f < 20000 THEN Verdict("fake", "Fake")
    ELSE IF 4 * f < sampleRate THEN Verdict("likely_fake", "Most likely Fake")
    ELSE IF 10 * f < 4 * sampleRate THEN Verdict("maybe_fake", "Might be Fake")
    ELSE IF 20 * f < 9 * sampleRate THEN Verdict("maybe_authentic", "Might be Authentic")
    ELSE IF 200 * f < 99 * sampleRate
         THEN Verdict("likely_authentic", "Most likely Authentic")
    ELSE Verdict("authentic", "Authentic")

\* mutant: the fake row of the 48 kHz table (20000) is used above 48 kHz too
tableAbove48000_fake20000(sampleRate, f) ==
    table48000(sampleRate, f)

\* sampleRate > 48000 table
tableAbove48000(sampleRate, f) ==
    IF f < 22050 THEN Verdict("fake", "Fake")
    ELSE IF 4 * f < sampleRate THEN Verdict("likely_fake", "Most likely Fake")
    ELSE IF 10 * f < 4 * sampleRate THEN Verdict("maybe_fake", "Might be Fake")
    ELSE IF 20 * f < 9 * sampleRate THEN Verdict("maybe_authentic", "Might be Authentic")
    ELSE IF 200 * f < 99 * sampleRate
         THEN Verdict("likely_authentic", "Most likely Authentic")
    ELSE Verdict("authentic", "Authentic")

\* mutant: the last table falls off its end without a return
tableReference_noDefault(f) ==
    IF 100 * f < 80 * reference THEN Verdict("fake", "Fake")
    ELSE IF 100 * f < 85 * reference THEN Verdict("likely_fake", "Most likely Fake")
    ELSE IF 100 * f < 90 * reference THEN Verdict("maybe_fake", "Might be Fake")
    ELSE IF 100 * f < 95 * reference THEN Verdict("maybe_authentic", "Might be Authentic")
    ELSE IF 100 * f < 99 * reference
         THEN Verdict("likely_authentic", "Most likely Authentic")
    ELSE Verdict("undefined", "undefined")

\* remaining sample rates (below 48000): fractions of the fixed reference
tableReference(f) ==
    IF 100 * f < 80 * reference THEN Verdict("fake", "Fake")
    ELSE IF 100 * f < 85 * reference THEN Verdict("likely_fake", "Most likely Fake")
    ELSE IF 100 * f < 90 * reference THEN Verdict("maybe_fake", "Might be Fake")
    ELSE IF 100 * f < 95 * reference THEN Verdict("maybe_authentic", "Might be Authentic")
    ELSE IF 100 * f < 99 * reference
         THEN Verdict("likely_authentic", "Most likely Authentic")
    ELSE Verdict("authentic", "Authentic")

\* the three parallel tables, selected by sample-rate band
verdictTables(sampleRate, f) ==
    IF sampleRate = 48000 THEN table48000(sampleRate, f)
    ELSE IF sampleRate > 48000 THEN tableAbove48000(sampleRate, f)
    ELSE tableReference(f)

\* mutant: the upper end of the band is exclusive
inAac256Band_strictUpper(sampleRate, f) ==
    200 * f >= 78 * sampleRate /\ 200 * f < 93 * sampleRate

\* norm >= aac256Lower && norm <= aac256Upper, norm = maxFreq / nyquist
inAac256Band(sampleRate, f) ==
    200 * f >= 78 * sampleRate /\ 200 * f <= 93 * sampleRate

\* mutant: the sub-AAC rule uses a lower bound of 0.70
belowAac256Band_lower70(sampleRate, f) == 200 * f < 70 * sampleRate

\* norm < aac256Lower
belowAac256Band(sampleRate, f) == 200 * f < 78 * sampleRate

\* mutant: only null is tested, a non-finite number goes on to the tables
noSignificantFrequency_nullOnly(mf) == mf.kind = "null"

\* maxFreq === null || !Number.isFinite(maxFreq)
noSignificantFrequency(mf) == mf.kind = "null" \/ ~NumberIsFinite(mf)

\* mutant: the sample-rate tables are consulted before the AAC band
classifyVerdict_tablesFirst(sampleRate, mf) ==
    IF noSignificantFrequency(mf) THEN Verdict("unknown", "Can't determine")
    ELSE IF sampleRate = 48000 /\ mf.num < 20000 THEN Verdict("fake", "Fake")
    ELSE IF sampleRate <= 48000 /\ inAac256Band(sampleRate, mf.num)
         THEN Verdict("aac_256", "Probable AAC-256 source (expected lossy)")
    ELSE IF sampleRate <= 48000 /\ belowAac256Band(sampleRate, mf.num)
         THEN Verdict("sub_aac_lossy", "Likely pre-AAC lossy source (<256 kbps)")
    ELSE verdictTables(sampleRate, mf.num)

classifyVerdict(sampleRate, mf) ==
    IF noSignificantFrequency(mf) THEN Verdict("unknown", "Can't determine")
    ELSE IF sampleRate <= 48000 /\ inAac256Band(sampleRate, mf.num)
         THEN Verdict("aac_256", "Probable AAC-256 source (expected lossy)")
    ELSE IF sampleRate <= 48000 /\ belowAac256Band(sampleRate, mf.num)
         THEN Verdict("sub_aac_lossy", "Likely pre-AAC lossy source (<256 kbps)")
    ELSE verdictTables(sampleRate, mf.num)

-----------------------------------------------------------------------------
(* Inputs of the classifier specification *)

windowSize == 2048

\* how far around every cut point of the tables the inputs are enumerated, in Hz
FreqMargin == 2

ClassifySampleRates ==
    {8000, 11025, 16000, 22050, 32000, 44100, 48000, 88200, 96000, 192000}

\* Math.ceil((bin * sampleRate) / windowSize): the values detectMaxFrequency reports
binFrequency(bin, sampleRate) == CeilDiv(bin * sampleRate, windowSize)

CutPoints(sampleRate) ==
    {(78 * sampleRate) \div 200, (93 * sampleRate) \div 200, sampleRate \div 4,
     (4 * sampleRate) \div 10, (9 * sampleRate) \div 20, (99 * sampleRate) \div 200,
     sampleRate \div 2, 20000, 22050, (80 * reference) \div 100, (85 * reference) \div 100,
     (90 * reference) \div 100, (95 * reference) \div 100, (99 * reference) \div 100,
     0, 16000, 19000, 23760}

FiniteFreqInputs(sampleRate) ==
    {binFrequency(bin, sampleRate) : bin \in 0..(windowSize \div 2)}
    \cup UNION {(c - FreqMargin)..(c + FreqMargin) : c \in CutPoints(sampleRate)}
    \cup (16000 - 22)..(16000 + 22)

MaxFreqInputs(sampleRate) ==
    {Null, Undefined, NaN, PosInfinity, NegInfinity}
    \cup {Finite(f) : f \in FiniteFreqInputs(sampleRate)}

\* the pipeline is idle in the pure-function specifications
PipelineIdle ==
    /\ pc = "idle"
    /\ meta = Null
    /\ pcm = NoRet
    /\ audio = Null
    /\ maxFreq = Null
    /\ verdict = Null
    /\ dr = Null
    /\ lufs = Null
    /\ report = NoRet
    /\ started = {}

\* the defaults of readPositiveInt for the two limits of the download queue
DefaultMaxConcurrentDownloads == 3

DefaultMaxPendingDownloads == 25

\* the task queue right after createTaskQueue, with the default limits
QueueIdle ==
    /\ MAX_CONCURRENT_DOWNLOADS = DefaultMaxConcurrentDownloads
    /\ MAX_PENDING_DOWNLOADS = DefaultMaxPendingDownloads
    /\ active = 0
    /\ queue = <<>>
    /\ tasks = <<>>

\* the password gate before any update
GateIdle ==
    /\ authorizedUsers = {}
    /\ awaitingPassword = {}
    /\ updates = <<>>

\* no call of handleDownloadJob
JobIdle ==
    /\ ENABLE_QUALITY_ANALYSIS = TRUE
    /\ job = [pc |-> "idle"]
    /\ downloadCount = 0

\* right after initializeBot: the file holds the ids that were loaded from it,
\* nothing is to be saved and no signal came
PersistIdle ==
    /\ authorizedUsersDirty = FALSE
    /\ persistAuthorizedUsersTimer = FALSE
    /\ persistCalls = <<>>
    /\ authStore = authorizedUsers
    /\ tempFiles = {}
    /\ isShuttingDown = FALSE
    /\ shutdown = "none"

\* the two module-level Maps are empty when the module is loaded
CacheIdle ==
    /\ FFT_TABLE_CACHE = {}
    /\ SG_COEFF_CACHE = {}
    /\ computed = [hann |-> 0, fft |-> 0, sg |-> 0]
    /\ analyses = <<>>

\* no playlist was requested
SessionIdle ==
    /\ playlistSessions = {}
    /\ session = Null
    /\ calls = <<>>
    /\ observed = [submitted |-> <<>>, prompts |-> <<>>, documents |-> <<>>,
                   tempDirs |-> {}, presses |-> <<>>, stopped |-> Null]

\* the downloader module is loaded and downloadTrack was not called
DownloaderIdle ==
    /\ ytdlpInstancePromise = Undefined
    /\ provisioning = <<>>
    /\ getters = <<>>

InitClassify ==
    /\ \E sampleRate \in ClassifySampleRates :
         \E mf \in MaxFreqInputs(sampleRate) :
            call = [fn |-> "classifyVerdict", sampleRate |-> sampleRate, maxFreq |-> mf]
    /\ ret = NoRet
    /\ PipelineIdle
    /\ QueueIdle
    /\ GateIdle
    /\ JobIdle
    /\ PersistIdle
    /\ CacheIdle
    /\ SessionIdle
    /\ DownloaderIdle

CallClassifyVerdict ==
    /\ call.fn = "classifyVerdict"
    /\ ret = NoRet
    /\ ret' = Return(classifyVerdict(call.sampleRate, call.maxFreq))
    /\ UNCHANGED <<call, pipelineVars, botVars>>

NextClassify == CallClassifyVerdict

SpecClassify == InitClassify /\ [][NextClassify]_vars

-----------------------------------------------------------------------------
(* Dynamic range estimator *)

\* the sample value that stands for 1.0
FullScale == 2

\* channel.length of a run-length encoded channel
RECURSIVE channelLength(_)
channelLength(channel) ==
    IF channel = <<>> THEN 0
    ELSE Head(channel).count + channelLength(Tail(channel))

\* the inner loop of analyzeChannelBlocks over samples start..end-1, run by run:
\* the run at index k starts at sample runStart
RECURSIVE scanBlock(_, _, _, _, _, _, _)
scanBlock(channel, k, runStart, start, end, peak, sumSquares) ==
    IF k > Len(channel) \/ runStart >= end
    THEN [peak |-> peak, sumSquares |-> sumSquares]
    ELSE LET run == channel[k]
             runEnd == runStart + run.count
             overlap == Min(runEnd, end) - Max(runStart, start)
         IN  IF overlap <= 0
             THEN scanBlock(channel, k + 1, runEnd, start, end, peak, sumSquares)
             ELSE scanBlock(channel, k + 1, runEnd, start, end,
                            Max(peak, Abs(run.value)),
                            sumSquares + overlap * run.value * run.value)

\* peak and sum of squares of block number block (0-based)
blockStats(channel, blockSize, block) ==
    scanBlock(channel, 1, 0, block * blockSize, block * blockSize + blockSize, 0, 0)

\* array.sort((a, b) => a - b): insertion of x into an ascending sequence
RECURSIVE insertAsc(_, _)
insertAsc(x, sorted) ==
    IF sorted = <<>> THEN <<x>>
    ELSE IF x <= Head(sorted) THEN <<x>> \o sorted
    ELSE <<Head(sorted)>> \o insertAsc(x, Tail(sorted))

RECURSIVE sortAsc(_)
sortAsc(values) ==
    IF values = <<>> THEN <<>> ELSE insertAsc(Head(values), sortAsc(Tail(values)))

RECURSIVE sumSeq(_)
sumSeq(values) == IF values = <<>> THEN 0 ELSE Head(values) + sumSeq(Tail(values))

\* toDb(sqrt(num / den)): -Infinity for a value <= 0, else 20*log10 rounded to
\* two decimals, kept as the pair it is the logarithm of
toDbSqrt(num, den) ==
    IF num <= 0 THEN NegInfinity ELSE [kind |-> "finite", dbOfSqrt |-> <<num, den>>]

\* toDb(num / den)
toDb(num, den) ==
    IF num <= 0 THEN NegInfinity ELSE [kind |-> "finite", dbOf |-> <<num, den>>]

\* unary minus on a toDb result
negate(db) ==
    IF db.kind = "-Infinity" THEN PosInfinity ELSE [kind |-> "finite", minus |-> db]

\* mutant: blocks of one second instead of three
blockSizeOf_oneSecond(sampleRate) == Max(1, sampleRate)

\* Math.max(1, Math.floor(sampleRate * 3))
blockSizeOf(sampleRate) == Max(1, 3 * sampleRate)

\* mutant: at least one block is always taken
topCountOf_atLeastOne(length) == Max(1, length \div 5)

\* Math.floor(0.2 * rmss.length)
topCountOf(length) == length \div 5

\* mutant: the top-20% count is tested before the silent test
analyzeChannelBlocks_topCountFirst(channelSamples, blockSize, numBlocks) ==
    LET stats == [b \in 1..numBlocks |-> blockStats(channelSamples, blockSize, b - 1)]
        peaks == sortAsc([b \in 1..numBlocks |-> stats[b].peak])
        rmss == sortAsc([b \in 1..numBlocks |-> stats[b].sumSquares])
    IN  IF Len(peaks) < 2 THEN Throw("TooShortError")
        ELSE LET p2 == peaks[Len(peaks) - 1]
                 topCount == topCountOf(Len(rmss))
             IN  IF topCount <= 0 THEN Throw("TooShortError")
                 ELSE IF p2 = 0 THEN Throw("SilentTrackError")
                 ELSE LET rmsSum == sumSeq(SubSeq(rmss, Len(rmss) - topCount + 1, Len(rmss)))
                      IN  Return([dr |-> negate(toDbSqrt(rmsSum,
                                                     blockSize * topCount * p2 * p2)),
                                  avgPeak |-> <<sumSeq(peaks), Len(peaks) * FullScale>>,
                                  avgRms |-> rmss])

\* analyzeChannelBlocks: rmss holds, in place of each block's rms, the block's
\* sum of squares (rms = sqrt(sumSquares / blockSize) is monotone in it)
analyzeChannelBlocks(channelSamples, blockSize, numBlocks) ==
    LET stats == [b \in 1..numBlocks |-> blockStats(channelSamples, blockSize, b - 1)]
        peaks == sortAsc([b \in 1..numBlocks |-> stats[b].peak])
        rmss == sortAsc([b \in 1..numBlocks |-> stats[b].sumSquares])
    IN  IF Len(peaks) < 2 THEN Throw("TooShortError")
        ELSE LET p2 == peaks[Len(peaks) - 1]
                 topCount == topCountOf(Len(rmss))
             IN  IF p2 = 0 THEN Throw("SilentTrackError")
                 ELSE IF topCount <= 0 THEN Throw("TooShortError")
                 ELSE LET rmsSum == sumSeq(SubSeq(rmss, Len(rmss) - topCount + 1, Len(rmss)))
                      IN  Return([dr |-> negate(toDbSqrt(rmsSum,
                                                     blockSize * topCount * p2 * p2)),
                                  avgPeak |-> <<sumSeq(peaks), Len(peaks) * FullScale>>,
                                  avgRms |-> rmss])

\* mutant: the loop wraps whatever a channel's analysis throws in a plain Error
RECURSIVE analyzeChannels_genericError(_, _, _, _, _)
analyzeChannels_genericError(channelData, ch, blockSize, numBlocks, acc) ==
    IF ch > Len(channelData) THEN Return(acc)
    ELSE LET stats == analyzeChannelBlocks(channelData[ch], blockSize, numBlocks)
         IN  IF stats.kind = "throw" THEN Throw("Error")
             ELSE analyzeChannels_genericError(channelData, ch + 1, blockSize,
                                               numBlocks, Append(acc, stats.value))

\* the loop of computeDynamicRange over the channels: the first channel whose
\* analysis throws ends it
RECURSIVE analyzeChannels(_, _, _, _, _)
analyzeChannels(channelData, ch, blockSize, numBlocks, acc) ==
    IF ch > Len(channelData) THEN Return(acc)
    ELSE LET stats == analyzeChannelBlocks(channelData[ch], blockSize, numBlocks)
         IN  IF stats.kind = "throw" THEN stats
             ELSE analyzeChannels(channelData, ch + 1, blockSize, numBlocks,
                                  Append(acc, stats.value))

\* roundTo(mean of drs, 2): null when the mean is not finite
roundedMean(drs) ==
    IF \E i \in 1..Len(drs) : ~NumberIsFinite(drs[i]) THEN Null
    ELSE [kind |-> "finite", meanOf |-> drs]

computeDynamicRange(channelData, sampleRate) ==
    IF Len(channelData) = 0 THEN Throw("TooShortError")
    ELSE LET blockSize == blockSizeOf(sampleRate)
             totalFrames == channelLength(channelData[1])
             numBlocks == totalFrames \div blockSize
         IN  IF numBlocks < 1 THEN Throw("TooShortError")
             ELSE LET all == analyzeChannels(channelData, 1, blockSize, numBlocks, <<>>)
                  IN  IF all.kind = "throw" THEN all
                      ELSE LET stats == all.value
                               n == Len(stats)
                               peakSum == sumSeq([i \in 1..n |-> stats[i].avgPeak[1]])
                               rmsAll == [i \in 1..n |-> stats[i].avgRms]
                           IN  Return(
                                 [dynamicRange |-> roundedMean([i \in 1..n |-> stats[i].dr]),
                                  avgPeakDb |-> toDb(peakSum, n * stats[1].avgPeak[2]),
                                  avgRmsDb |->
                                    IF \A i \in 1..n : sumSeq(rmsAll[i]) = 0
                                    THEN NegInfinity
                                    ELSE [kind |-> "finite", dbOfMeanRms |-> rmsAll]])

\* mutant: the catch clause knows TooShortError only and rethrows the rest
drOutcome_silentRethrown(outcome) ==
    IF outcome.kind = "return"
    THEN Return([drStatus |-> "ok",
                 dynamicRange |-> outcome.value.dynamicRange,
                 avgPeakDb |-> outcome.value.avgPeakDb,
                 avgRmsDb |-> outcome.value.avgRmsDb])
    ELSE IF outcome.error = "TooShortError"
    THEN Return([drStatus |-> "too_short", dynamicRange |-> Null,
                 avgPeakDb |-> Null, avgRmsDb |-> Null])
    ELSE outcome

\* the try/catch of analyzeTrackQuality around computeDynamicRange
drOutcome(outcome) ==
    IF outcome.kind = "return"
    THEN Return([drStatus |-> "ok",
                 dynamicRange |-> outcome.value.dynamicRange,
                 avgPeakDb |-> outcome.value.avgPeakDb,
                 avgRmsDb |-> outcome.value.avgRmsDb])
    ELSE IF outcome.error = "TooShortError"
    THEN Return([drStatus |-> "too_short", dynamicRange |-> Null,
                 avgPeakDb |-> Null, avgRmsDb |-> Null])
    ELSE IF outcome.error = "SilentTrackError"
    THEN Return([drStatus |-> "silent_track", dynamicRange |-> Null,
                 avgPeakDb |-> Null, avgRmsDb |-> Null])
    ELSE outcome

-----------------------------------------------------------------------------
(* Inputs of the dynamic-range specification *)

\* the longest run-length encoded buffer, in runs
MaxRuns == 3

DrSampleRates == {44100, 48000}

\* run lengths in samples: one sample, one sample short of a block, 6 s, 10 s
RunLengths(sampleRate) == {1, 3 * sampleRate - 1, 6 * sampleRate, 10 * sampleRate}

\* interleaved frames: mono and stereo
MonoFrames == {<<0>>, <<1>>, <<-FullScale>>}

StereoFrames == {<<0, 0>>, <<1, -FullScale>>, <<0, 1>>}

PcmRuns(frames, sampleRate) ==
    [frame : frames, count : RunLengths(sampleRate)]

\* run-length encoded interleaved buffers of at most MaxRuns runs
PcmInputs(frames, sampleRate) ==
    UNION {[1..n -> PcmRuns(frames, sampleRate)] : n \in 0..MaxRuns}

\* the de-interleaving loop of decodeAudioData: channelData[ch][i] = pcm[i * channels + ch]
deinterleave(pcmRuns, channels) ==
    [ch \in 1..channels |->
        [k \in 1..Len(pcmRuns) |-> [value |-> pcmRuns[k].frame[ch], count |-> pcmRuns[k].count]]]

ChannelDataInputs(sampleRate) ==
    {<<>>}
    \cup {deinterleave(pcmRuns, 1) : pcmRuns \in PcmInputs(MonoFrames, sampleRate)}
    \cup {deinterleave(pcmRuns, 2) : pcmRuns \in PcmInputs(StereoFrames, sampleRate)}

InitDR ==
    /\ \E sampleRate \in DrSampleRates :
         \E channelData \in ChannelDataInputs(sampleRate) :
            call = [fn |-> "computeDynamicRange", sampleRate |-> sampleRate,
                    channelData |-> channelData]
    /\ ret = NoRet
    /\ PipelineIdle
    /\ QueueIdle
    /\ GateIdle
    /\ JobIdle
    /\ PersistIdle
    /\ CacheIdle
    /\ SessionIdle
    /\ DownloaderIdle

CallComputeDynamicRange ==
    /\ call.fn = "computeDynamicRange"
    /\ ret = NoRet
    /\ ret' = computeDynamicRange(call.channelData, call.sampleRate)
    /\ UNCHANGED <<call, pipelineVars, botVars>>

NextDR == CallComputeDynamicRange

SpecDR == InitDR /\ [][NextDR]_vars

-----------------------------------------------------------------------------
(* analyzeTrackQuality *)

\* !sampleRate || !Number.isFinite(sampleRate), sampleRate = Number(meta.sample_rate)
sampleRateUnreadable(m) == ~NumberIsFinite(m.sample_rate) \/ m.sample_rate.num = 0

\* Math.max(1, Number(meta.channels) || 1)
channelsOf(m) == IF NumberIsFinite(m.channels) THEN Max(1, m.channels.num) ELSE 1

RECURSIVE sumFrame(_)
sumFrame(frame) == IF frame = <<>> THEN 0 ELSE Head(frame) + sumFrame(Tail(frame))

\* the mixing loop of decodeAudioData; the model keeps the sum of the channels,
\* which is zero exactly when the average sum / channels is
monoMix(pcmRuns) ==
    [k \in 1..Len(pcmRuns) |-> [value |-> sumFrame(pcmRuns[k].frame), count |-> pcmRuns[k].count]]

\* the record decodeAudioData returns for a decoded buffer
decodedAudio(sampleRate, channels, pcmRuns) ==
    [sampleRate |-> sampleRate,
     channels |-> channels,
     channelData |-> deinterleave(pcmRuns, channels),
     monoData |-> monoMix(pcmRuns)]

hopLength == 512

\* freqBins = windowSize / 2 + 1: the bins 0 .. freqBins - 1 of the half spectrum
freqBins == windowSize \div 2 + 1

\* a sample buffer handed to detectMaxFrequency, run-length encoded
Float32Array(runs) == [kind |-> "Float32Array", runs |-> runs]

\* mutant: the last partial window is counted as a frame (ceil for floor)
numFramesOf_ceil(length) == CeilDiv(length - windowSize, hopLength) + 1

\* Math.floor((samples.length - windowSize) / hopLength) + 1
numFramesOf(length) == (length - windowSize) \div hopLength + 1

\* mutant: maxAmp starts from a positive floor instead of 0
maxAmpPositive_floor(runs, numFrames) ==
    TRUE

\* maxAmp > 0 after the FFT loop.  getHannWindow gives window[0] = 0 and
\* window[windowSize - 1] = 0 and a positive coefficient everywhere between, so
\* a frame has a non-zero magnitude exactly when a sample at one of its
\* positions 1 .. windowSize - 2 is not zero; the frames overlap, so these are
\* the samples 1 .. hopLength * (numFrames - 1) + windowSize - 2 of the buffer
maxAmpPositive(runs, numFrames) ==
    LET last == hopLength * (numFrames - 1) + windowSize - 2
    IN  \E k \in 1..Len(runs) :
           LET start == channelLength(SubSeq(runs, 1, k - 1))
           IN  /\ runs[k].value # 0
               /\ runs[k].count > 0
               /\ start <= last
               /\ start + runs[k].count - 1 >= 1

\* mutant: the first bin above its threshold is kept, the loop stops there
maxSignificantOf_first(significantBins, sampleRate) ==
    IF significantBins = {} THEN Null
    ELSE LET first == CHOOSE bin \in significantBins :
                         \A other \in significantBins : bin <= other
         IN  [kind |-> "ratio", num |-> first * sampleRate, den |-> windowSize]

\* the threshold loop: bins are visited in ascending order and every bin with a
\* frame above its threshold overwrites maxSignificant, so the highest such bin
\* is kept; freq = (bin * sampleRate) / windowSize is kept as the pair
\* <<numerator, denominator>>
maxSignificantOf(significantBins, sampleRate) ==
    IF significantBins = {} THEN Null
    ELSE LET top == CHOOSE bin \in significantBins :
                       \A other \in significantBins : other <= bin
         IN  [kind |-> "ratio", num |-> top * sampleRate, den |-> windowSize]

-----------------------------------------------------------------------------
(* Savitzky-Golay smoothing: applySavitzkyGolay, getSavitzkyGolayCoefficients *)
(* and the matrix helpers behind it.  The numbers are exact: a coefficient   *)
(* is a numerator over the common denominator den, an output value the sum   *)
(* of numerator * sample over the same den; a series is a sequence, the      *)
(* index idx of the code is position idx + 1 of it.                          *)

\* the window and the order smoothSpectrogram passes for every frame
sgWindowSize == 11

polyOrder == 2

\* half = (windowSize - 1) / 2
halfOf(size) == (size - 1) \div 2

RECURSIVE pow(_, _)
pow(k, exponent) == IF exponent = 0 THEN 1 ELSE k * pow(k, exponent - 1)

\* the entry [row][col] of ATA with row + col = m: the sum of k^m over the
\* window, k = -half .. half
RECURSIVE momentFrom(_, _, _)
momentFrom(k, half, m) ==
    IF k > half THEN 0 ELSE pow(k, m) + momentFrom(k + 1, half, m)

moment(size, m) == momentFrom(-halfOf(size), halfOf(size), m)

\* the pivots invert meets on ATA, as <<numerator, denominator>>.  The odd
\* moments are 0, so no row changes the pivot of the second column and the
\* third pivot is S4 - S2 * S2 / S0; a column whose pivot is 0 has only zeros
\* below it, so the row swap finds nothing.
pivotsOf(size, order) ==
    LET S0 == moment(size, 0)
        S2 == moment(size, 2)
        S4 == moment(size, 4)
        all == <<[num |-> S0, den |-> 1], [num |-> S2, den |-> 1],
                 [num |-> S0 * S4 - S2 * S2, den |-> S0]>>
    IN  SubSeq(all, 1, order + 1)

\* mutant: the pivot test is inverted (> 1e-12 throws)
invertible_inverted(size, order) ==
    \A i \in 1..(order + 1) : pivotsOf(size, order)[i].num = 0

\* invert does not throw 'Matrix not invertible': no pivot has
\* Math.abs(pivot) < 1e-12 (the pivots are ratios of integers below 10^12, so
\* that is pivot = 0)
invertible(size, order) ==
    \A i \in 1..(order + 1) : pivotsOf(size, order)[i].num # 0

\* pinv[0], the row of coefficients: 1 / S0 each up to order 1,
\* (S4 - S2 * k * k) / (S0 * S4 - S2 * S2) for order 2
coefficientsOf(size, order) ==
    LET S0 == moment(size, 0)
        S2 == moment(size, 2)
        S4 == moment(size, 4)
        half == halfOf(size)
    IN  IF order < 2
        THEN [nums |-> [j \in 1..size |-> 1], den |-> S0]
        ELSE [nums |-> [j \in 1..size |-> S4 - S2 * (j - 1 - half) * (j - 1 - half)],
              den |-> S0 * S4 - S2 * S2]

\* mutant: an index past the end is left as it is
clampIndex_noUpper(idx, length) ==
    IF idx < 0 THEN 0 ELSE idx

\* if (idx < 0) idx = 0; if (idx >= series.length) idx = series.length - 1
clampIndex(idx, length) ==
    IF idx < 0 THEN 0
    ELSE IF idx >= length THEN length - 1
    ELSE idx

\* the indices of series read for output position i (0-based), one per j
readsAt(i, length, size) ==
    [j \in 1..size |-> clampIndex(i + (j - 1) - halfOf(size), length)]

\* a read of series outside 0 .. length - 1 gives undefined, and acc becomes NaN
sampleAt(series, idx) ==
    IF idx >= 0 /\ idx < Len(series) THEN Finite(series[idx + 1]) ELSE Undefined

RECURSIVE accumulate(_, _, _, _)
accumulate(series, nums, reads, j) ==
    IF j > Len(reads) THEN Finite(0)
    ELSE LET rest == accumulate(series, nums, reads, j + 1)
             sample == sampleAt(series, reads[j])
         IN  IF rest.kind # "finite" \/ sample.kind # "finite" THEN NaN
             ELSE Finite(nums[j] * sample.num + rest.num)

\* applySavitzkyGolay: the series itself when it is empty; an error for an
\* even window or a matrix that cannot be inverted; else the output, one value
\* per position of the series
applySavitzkyGolay(series, size, order) ==
    IF Len(series) = 0 THEN Return([values |-> series, den |-> 1])
    ELSE IF size % 2 = 0 THEN Throw("Savitzky-Golay window must be odd")
    ELSE IF ~invertible(size, order) THEN Throw("Matrix not invertible")
    ELSE LET coeffs == coefficientsOf(size, order)
         IN  Return([values |->
                        [p \in 1..Len(series) |->
                            accumulate(series, coeffs.nums,
                                       readsAt(p - 1, Len(series), size), 1)],
                     den |-> coeffs.den])

-----------------------------------------------------------------------------
(* detectMaxFrequency, continued *)

\* mutant: the result is tested with !== null instead of for truthiness
ceilOrNull_nullTest(maxSignificant) ==
    IF maxSignificant.kind = "null" THEN Null
    ELSE Finite(CeilDiv(maxSignificant.num, maxSignificant.den))

\* maxSignificant ? Math.ceil(maxSignificant) : null
ceilOrNull(maxSignificant) ==
    IF maxSignificant.kind = "null" \/ maxSignificant.num = 0 THEN Null
    ELSE Finite(CeilDiv(maxSignificant.num, maxSignificant.den))

\* detectMaxFrequency.  The numbers of the FFT, of the smoothing and of the
\* thresholds are not computed: significantBins stands for their result, the
\* set of bins that have a frame above the threshold.
detectMaxFrequency(samples, sampleRate, significantBins) ==
    IF samples.kind = "null" THEN Null
    ELSE IF channelLength(samples.runs) < windowSize THEN Null
    ELSE LET numFrames == numFramesOf(channelLength(samples.runs))
         IN  IF numFrames <= 0 THEN Null
             ELSE IF ~maxAmpPositive(samples.runs, numFrames) THEN Null
             ELSE ceilOrNull(maxSignificantOf(significantBins, sampleRate))

\* Map.get(key) as the set of the entries with that key: empty, or one entry
entriesAt(cache, key) == {entry \in cache : entry.key = key}

\* mutant: the window is computed for the first call only
getHannWindow_once(counts) ==
    IF counts.hann = 0 THEN [counts EXCEPT !.hann = 1] ELSE counts

\* getHannWindow(size): a new Float64Array is filled at every call
getHannWindow(counts) == [counts EXCEPT !.hann = @ + 1]

\* getFftTables(size): the tables of a size are computed and set when the Map
\* has none, and the entry of the Map is returned.  A table is known by the
\* count of the computation that made it.
getFftTables(size, cache, counts) ==
    IF entriesAt(cache, size) = {}
    THEN LET made == [key |-> size, made |-> counts.fft + 1]
         IN  [cache |-> cache \cup {made},
              counts |-> [counts EXCEPT !.fft = @ + 1],
              table |-> made]
    ELSE [cache |-> cache, counts |-> counts,
          table |-> CHOOSE entry \in entriesAt(cache, size) : TRUE]

\* mutant: the coefficients are computed and set at every call
getSavitzkyGolayCoefficients_always(size, order, cache, counts) ==
    LET made == [key |-> <<size, order>>, made |-> counts.sg + 1,
                 coeffs |-> coefficientsOf(size, order)]
    IN  [cache |-> (cache \ entriesAt(cache, <<size, order>>)) \cup {made},
         counts |-> [counts EXCEPT !.sg = @ + 1],
         outcome |-> Return(made)]

\* getSavitzkyGolayCoefficients(windowSize, polyOrder): the entry of the Map
\* when there is one; else the coefficients are computed, set and returned,
\* or invert throws and nothing is set
getSavitzkyGolayCoefficients(size, order, cache, counts) ==
    IF entriesAt(cache, <<size, order>>) # {}
    THEN [cache |-> cache, counts |-> counts,
          outcome |-> Return(CHOOSE entry \in entriesAt(cache, <<size, order>>) : TRUE)]
    ELSE IF ~invertible(size, order)
    THEN [cache |-> cache, counts |-> counts, outcome |-> Throw("Matrix not invertible")]
    ELSE LET made == [key |-> <<size, order>>, made |-> counts.sg + 1,
                      coeffs |-> coefficientsOf(size, order)]
         IN  [cache |-> cache \cup {made},
              counts |-> [counts EXCEPT !.sg = @ + 1],
              outcome |-> Return(made)]

\* smoothSpectrogram: applySavitzkyGolay(column, 11, 2) for each of the
\* numFrames columns, each of freqBins values: the window test, then the
\* lookup of the coefficients.  The first call fills the Map, the later ones
\* read it; the tables the calls were handed are collected.
smoothSpectrogram(numFrames, cache, counts) ==
    IF sgWindowSize % 2 = 0
    THEN [cache |-> cache, counts |-> counts, tables |-> {},
          outcome |-> Throw("Savitzky-Golay window must be odd")]
    ELSE LET first == getSavitzkyGolayCoefficients(sgWindowSize, polyOrder,
                                                    cache, counts)
             later == getSavitzkyGolayCoefficients(sgWindowSize, polyOrder,
                                                    first.cache, first.counts)
         IN  IF first.outcome.kind = "throw"
             THEN [cache |-> first.cache, counts |-> first.counts, tables |-> {},
                   outcome |-> first.outcome]
             ELSE IF numFrames = 1
             THEN [cache |-> first.cache, counts |-> first.counts,
                   tables |-> {first.outcome.value}, outcome |-> Return(Null)]
             ELSE [cache |-> later.cache, counts |-> later.counts,
                   tables |-> {first.outcome.value, later.outcome.value},
                   outcome |-> Return(Null)]

\* one call of detectMaxFrequency in a process whose Maps are fftCache and
\* sgCache: how it settles, the Maps and the counts after it, and the tables
\* it was handed
detectRun(samples, sampleRate, significantBins, fftCache, sgCache, counts) ==
    LET untouched == [outcome |-> Return(Null), fft |-> fftCache, sg |-> sgCache,
                      counts |-> counts, fftTables |-> {}, sgTables |-> {},
                      windowed |-> FALSE, smoothed |-> FALSE]
    IN
    IF samples.kind = "null" THEN untouched
    ELSE IF channelLength(samples.runs) < windowSize THEN untouched
    ELSE LET numFrames == numFramesOf(channelLength(samples.runs))
             tables == getFftTables(windowSize, fftCache, getHannWindow(counts))
             windowed == [untouched EXCEPT !.fft = tables.cache,
                                           !.counts = tables.counts,
                                           !.fftTables = {tables.table},
                                           !.windowed = TRUE]
         IN  IF numFrames <= 0 THEN untouched
             ELSE IF ~maxAmpPositive(samples.runs, numFrames) THEN windowed
             ELSE LET smooth == smoothSpectrogram(numFrames, sgCache, tables.counts)
                  IN  [windowed EXCEPT
                          !.sg = smooth.cache,
                          !.counts = smooth.counts,
                          !.sgTables = smooth.tables,
                          !.smoothed = TRUE,
                          !.outcome =
                             IF smooth.outcome.kind = "throw" THEN smooth.outcome
                             ELSE Return(detectMaxFrequency(samples, sampleRate,
                                                            significantBins))]

\* bins the threshold loop is given in the model: the lowest, the highest and
\* some between
DetectBins == {0, 1, 512, 700, 820, 900, 960, 1000, 1024}

\* how many bins a set of significant bins has at most
MaxSignificantBins == 2

SignificantInputs ==
    {bins \in SUBSET DetectBins : Cardinality(bins) <= MaxSignificantBins}

\* what detectMaxFrequency may return for a buffer, over the sets of
\* significant bins
detectMaxFrequencyOutcomes(samples, sampleRate) ==
    {detectMaxFrequency(Float32Array(samples), sampleRate, bins) :
        bins \in SignificantInputs}

\* the longest buffer handed to detectMaxFrequency, in runs
DetectMaxRuns == 2

DetectSampleRates == {11025, 44100, 48000}

\* run lengths in samples around windowSize
DetectRunLengths == {1, windowSize - 2, windowSize - 1, windowSize}

\* mono samples: silence and a non-zero value
DetectValues == {0, 1}

SamplesInputs ==
    {Null} \cup
    {Float32Array(runs) :
        runs \in UNION {[1..n -> [value : DetectValues, count : DetectRunLengths]] :
                          n \in 0..DetectMaxRuns}}

InitDetect ==
    /\ \E sampleRate \in DetectSampleRates :
         \E samples \in SamplesInputs :
            \E bins \in SignificantInputs :
               call = [fn |-> "detectMaxFrequency", samples |-> samples,
                       sampleRate |-> sampleRate, significantBins |-> bins]
    /\ ret = NoRet
    /\ PipelineIdle
    /\ QueueIdle
    /\ GateIdle
    /\ JobIdle
    /\ PersistIdle
    /\ CacheIdle
    /\ SessionIdle
    /\ DownloaderIdle

CallDetectMaxFrequency ==
    /\ call.fn = "detectMaxFrequency"
    /\ ret = NoRet
    /\ LET run == detectRun(call.samples, call.sampleRate, call.significantBins,
                            FFT_TABLE_CACHE, SG_COEFF_CACHE, computed)
       IN  /\ ret' = run.outcome
           /\ FFT_TABLE_CACHE' = run.fft
           /\ SG_COEFF_CACHE' = run.sg
           /\ computed' = run.counts
    /\ UNCHANGED <<call, pipelineVars, queueVars, gateVars, jobVars, persistVars, sessionVars,
                   downloaderVars,
                   analyses>>

NextDetect == CallDetectMaxFrequency

SpecDetect == InitDetect /\ [][NextDetect]_vars

\* messages.qualityVerdict(key, label): the display label of the verdict
qualityVerdict(key, label) == label

\* formatMaxFrequency: `max ${(value / 1000).toFixed(1)} kHz`, null when not finite
formatMaxFrequency(value) ==
    IF ~NumberIsFinite(value) THEN Null ELSE [clause |-> "max kHz", of |-> value]

\* mutant: the value is tested before the status
formatDynamicRange_finiteFirst(value, status) ==
    IF ~NumberIsFinite(value) THEN Null
    ELSE IF status = "too_short" THEN [clause |-> "DR n/a (too short)"]
    ELSE IF status = "silent_track" THEN [clause |-> "DR n/a (silent track)"]
    ELSE [clause |-> "DR", of |-> value]

\* formatDynamicRange
formatDynamicRange(value, status) ==
    IF status = "too_short" THEN [clause |-> "DR n/a (too short)"]
    ELSE IF status = "silent_track" THEN [clause |-> "DR n/a (silent track)"]
    ELSE IF ~NumberIsFinite(value) THEN Null
    ELSE [clause |-> "DR", of |-> value]

\* formatLufs
formatLufs(value) ==
    IF ~NumberIsFinite(value) THEN Null ELSE [clause |-> "LUFS", of |-> value]

\* messages.qualityFallbackLabel()
qualityFallbackLabel == <<[clause |-> "fallback"]>>

\* the separator of parts.join, a bullet between two spaces
separator == [clause |-> " * "]

\* parts.push for a truthy clause
pushIf(parts, clause) == IF clause = Null THEN parts ELSE Append(parts, clause)

\* parts.join(separator): the clauses with the separator between neighbours
RECURSIVE join(_, _)
join(parts, sep) ==
    IF Len(parts) = 0 THEN <<>>
    ELSE IF Len(parts) = 1 THEN parts
    ELSE <<Head(parts), sep>> \o join(Tail(parts), sep)

\* mutant: the dynamic-range clause is pushed before the max-frequency clause
buildQualityInfo_drFirst(details) ==
    LET verdictLabel == qualityVerdict(details.verdict_key, details.verdict_label)
        p1 == IF verdictLabel = "" THEN <<>> ELSE <<[clause |-> verdictLabel]>>
        p2 == pushIf(p1, formatDynamicRange(details.dynamic_range, details.dr_status))
        p3 == pushIf(p2, formatMaxFrequency(details.max_significant_freq))
        parts == pushIf(p3, formatLufs(details.lufs))
    IN  [rating |-> details.verdict_key,
         text |-> IF Len(parts) > 0 THEN join(parts, separator)
                  ELSE qualityFallbackLabel,
         details |-> details]

\* buildQualityInfo: text is the sequence of clauses and separators
buildQualityInfo(details) ==
    LET verdictLabel == qualityVerdict(details.verdict_key, details.verdict_label)
        p1 == IF verdictLabel = "" THEN <<>> ELSE <<[clause |-> verdictLabel]>>
        p2 == pushIf(p1, formatMaxFrequency(details.max_significant_freq))
        p3 == pushIf(p2, formatDynamicRange(details.dynamic_range, details.dr_status))
        parts == pushIf(p3, formatLufs(details.lufs))
    IN  [rating |-> details.verdict_key,
         text |-> IF Len(parts) > 0 THEN join(parts, separator)
                  ELSE qualityFallbackLabel,
         details |-> details]

\* verdicts handed to buildQualityInfo: three of the classifier's and one
\* whose label is empty
ReportVerdicts ==
    {Verdict("unknown", "Can't determine"),
     Verdict("aac_256", "Probable AAC-256 source (expected lossy)"),
     Verdict("authentic", "Authentic"),
     Verdict("fake", "")}

ReportMaxFreqs == {Null, NaN, Finite(19000), Finite(0)}

ReportDrStatuses == {"ok", "too_short", "silent_track"}

ReportDrValues == {Null, NaN, Finite(12)}

ReportLufs == {Null, PosInfinity, Finite(-14)}

DetailsInputs ==
    {[max_significant_freq |-> mf, verdict_key |-> v.verdictKey,
      verdict_label |-> v.verdictLabel, dr_status |-> st,
      dynamic_range |-> d, lufs |-> l] :
        v \in ReportVerdicts, mf \in ReportMaxFreqs, st \in ReportDrStatuses,
        d \in ReportDrValues, l \in ReportLufs}

InitReport ==
    /\ \E details \in DetailsInputs :
          call = [fn |-> "buildQualityInfo", details |-> details]
    /\ ret = NoRet
    /\ PipelineIdle
    /\ QueueIdle
    /\ GateIdle
    /\ JobIdle
    /\ PersistIdle
    /\ CacheIdle
    /\ SessionIdle
    /\ DownloaderIdle

CallBuildQualityInfo ==
    /\ call.fn = "buildQualityInfo"
    /\ ret = NoRet
    /\ ret' = Return(buildQualityInfo(call.details))
    /\ UNCHANGED <<call, pipelineVars, botVars>>

NextReport == CallBuildQualityInfo

SpecReport == InitReport /\ [][NextReport]_vars

\* how many runs a decoded buffer of the pipeline has at most
PipelineMaxRuns == 2

PipelineSampleRates == {44100, 48000, 96000}

\* run lengths in samples: one sample, 6 s, 10 s
PipelineRunLengths(sampleRate) == {1, 6 * sampleRate, 10 * sampleRate}

FramesOf(channels) == IF channels = 1 THEN MonoFrames ELSE StereoFrames

\* what ffmpeg may deliver: nothing (null: it did not start, it failed or its
\* output was empty), whole frames, or fewer floats than one frame has
\* (extra counts the floats after the last whole frame)
PipelinePcmInputs(channels, sampleRate) ==
    {Null}
    \cup {[kind |-> "pcm", runs |-> runs, extra |-> 0] :
            runs \in UNION {[1..n -> [frame : FramesOf(channels),
                                      count : PipelineRunLengths(sampleRate)]] :
                              n \in 1..PipelineMaxRuns}}
    \cup {[kind |-> "pcm", runs |-> <<>>, extra |-> extra] :
            extra \in 1..(channels - 1)}

\* Math.floor(pcm.length / channels): the whole frames of the buffer
samplesPerChannelOf(floats) == channelLength(floats.runs)

\* mutant: only a negative count is refused
noSamples_negativeOnly(floats) ==
    samplesPerChannelOf(floats) < 0

\* !Number.isFinite(samplesPerChannel) || samplesPerChannel <= 0
noSamples(floats) ==
    samplesPerChannelOf(floats) <= 0

\* what ffprobe may deliver: nothing, or the first audio stream
MetaInputs ==
    {Null} \cup
    [sample_rate : {Undefined, Finite(0)} \cup {Finite(r) : r \in PipelineSampleRates},
     channels : {Undefined, Finite(1), Finite(2)}]

LufsInputs == {Null, Finite(-14)}

Init ==
    /\ call = [fn |-> "none"]
    /\ ret = NoRet
    /\ pc = "probe"
    /\ meta = Null
    /\ pcm = NoRet
    /\ audio = Null
    /\ maxFreq = Null
    /\ verdict = Null
    /\ dr = Null
    /\ lufs = Null
    /\ report = NoRet
    /\ started = {}
    /\ QueueIdle
    /\ GateIdle
    /\ JobIdle
    /\ PersistIdle
    /\ CacheIdle
    /\ SessionIdle
    /\ DownloaderIdle

\* decodeAudioData up to its second await: the probe and the sample-rate test
ProbeAudioStream ==
    /\ pc = "probe"
    /\ \E m \in MetaInputs :
          /\ meta' = m
          /\ IF m = Null \/ sampleRateUnreadable(m)
             THEN pc' = "done" /\ report' = Return(Null)
             ELSE pc' = "decode" /\ report' = report
    /\ UNCHANGED <<botVars, call, ret, pcm, audio, maxFreq, verdict, dr, lufs, started>>

\* the rest of decodeAudioData and the test of its result in analyzeTrackQuality
DecodeToFloat32 ==
    /\ pc = "decode"
    /\ \E floats \in PipelinePcmInputs(channelsOf(meta), meta.sample_rate.num) :
          /\ pcm' = floats
          /\ IF floats.kind = "null"
             THEN pc' = "done" /\ report' = Return(Null) /\ audio' = audio
             ELSE IF noSamples(floats)
             THEN pc' = "done" /\ report' = Return(Null) /\ audio' = audio
             ELSE /\ audio' = decodedAudio(meta.sample_rate.num, channelsOf(meta),
                                           floats.runs)
                  /\ pc' = "detect"
                  /\ report' = report
    /\ UNCHANGED <<botVars, call, ret, meta, maxFreq, verdict, dr, lufs, started>>

DetectMaxFrequency ==
    /\ pc = "detect"
    /\ maxFreq' \in detectMaxFrequencyOutcomes(audio.monoData, audio.sampleRate)
    /\ LET run == detectRun(Float32Array(audio.monoData), audio.sampleRate, {},
                            FFT_TABLE_CACHE, SG_COEFF_CACHE, computed)
       IN  /\ FFT_TABLE_CACHE' = run.fft
           /\ SG_COEFF_CACHE' = run.sg
           /\ computed' = run.counts
    /\ started' = started \cup {"detectMaxFrequency"}
    /\ pc' = "classify"
    /\ UNCHANGED <<queueVars, gateVars, jobVars, persistVars, sessionVars,
                   downloaderVars, analyses, call, ret,
                   meta, pcm, audio, verdict, dr, lufs, report>>

\* mutant: the classifier is passed over and the dynamic-range estimation
\* starts without a verdict
ClassifyVerdict_deferred ==
    /\ pc = "classify"
    /\ pc' = "dynamicRange"
    /\ UNCHANGED <<botVars, call, ret, meta, pcm, audio, maxFreq, verdict, dr, lufs,
                   report, started>>

ClassifyVerdict ==
    /\ pc = "classify"
    /\ verdict' = classifyVerdict(audio.sampleRate, maxFreq)
    /\ pc' = "dynamicRange"
    /\ UNCHANGED <<botVars, call, ret, meta, pcm, audio, maxFreq, dr, lufs, report,
                   started>>

\* the try/catch around computeDynamicRange: an error that is neither
\* TooShortError nor SilentTrackError rejects the promise
ComputeDynamicRange ==
    /\ pc = "dynamicRange"
    /\ LET outcome == drOutcome(computeDynamicRange(audio.channelData, audio.sampleRate))
       IN  IF outcome.kind = "throw"
           THEN pc' = "done" /\ report' = outcome /\ dr' = dr
           ELSE pc' = "loudness" /\ report' = report /\ dr' = outcome.value
    /\ started' = started \cup {"computeDynamicRange"}
    /\ UNCHANGED <<botVars, call, ret, meta, pcm, audio, maxFreq, verdict, lufs>>

MeasureIntegratedLoudness ==
    /\ pc = "loudness"
    /\ lufs' \in LufsInputs
    /\ started' = started \cup {"measureIntegratedLoudness"}
    /\ pc' = "build"
    /\ UNCHANGED <<botVars, call, ret, meta, pcm, audio, maxFreq, verdict, dr, report>>

BuildQualityInfo ==
    /\ pc = "build"
    /\ report' = Return(buildQualityInfo(
                    [sample_rate |-> audio.sampleRate,
                     nyquist_freq |-> <<audio.sampleRate, 2>>,
                     max_significant_freq |-> maxFreq,
                     verdict_key |-> verdict.verdictKey,
                     verdict_label |-> verdict.verdictLabel,
                     dr_status |-> dr.drStatus,
                     dynamic_range |-> dr.dynamicRange,
                     avg_peak_db |-> dr.avgPeakDb,
                     avg_rms_db |-> dr.avgRmsDb,
                     lufs |-> lufs]))
    /\ pc' = "done"
    /\ UNCHANGED <<botVars, call, ret, meta, pcm, audio, maxFreq, verdict, dr, lufs,
                   started>>

Next ==
    \/ ProbeAudioStream
    \/ DecodeToFloat32
    \/ DetectMaxFrequency
    \/ ClassifyVerdict
    \/ ComputeDynamicRange
    \/ MeasureIntegratedLoudness
    \/ BuildQualityInfo

Spec == Init /\ [][Next]_vars

-----------------------------------------------------------------------------
(* createTaskQueue *)

\* x >= bound for a bound that is a finite number or Infinity
AtLeast(x, bound) == bound.kind = "finite" /\ x >= bound.num

\* limit: desiredConcurrency when it is finite and positive, otherwise Infinity
limitOf(desiredConcurrency) ==
    IF desiredConcurrency > 0 THEN Finite(desiredConcurrency) ELSE PosInfinity

\* queueLimit: maxQueueSize when it is finite and not negative, otherwise Infinity
queueLimitOf(maxQueueSize) ==
    IF maxQueueSize >= 0 THEN Finite(maxQueueSize) ELSE PosInfinity

\* messages.queueFull(): the user-facing text of a refused request
queueFull == "queue is full"

\* the closure of createTaskQueue as one value
QueueState == [active |-> active, queue |-> queue, tasks |-> tasks]

\* mutant: runNext tests only whether an entry waits
runNext_noLimit(q, limit) ==
    IF Len(q.queue) = 0 THEN q
    ELSE [active |-> q.active + 1,
          queue |-> Tail(q.queue),
          tasks |-> [q.tasks EXCEPT ![Head(q.queue)].state = "scheduled"]]

\* mutant: runNext takes the newest entry
runNext_newest(q, limit) ==
    IF AtLeast(q.active, limit) \/ Len(q.queue) = 0 THEN q
    ELSE [active |-> q.active + 1,
          queue |-> SubSeq(q.queue, 1, Len(q.queue) - 1),
          tasks |-> [q.tasks EXCEPT ![q.queue[Len(q.queue)]].state = "scheduled"]]

\* runNext: takes the oldest entry when a slot is free; the task itself is
\* called later, from Promise.resolve().then(task)
runNext(q, limit) ==
    IF AtLeast(q.active, limit) \/ Len(q.queue) = 0 THEN q
    ELSE [active |-> q.active + 1,
          queue |-> Tail(q.queue),
          tasks |-> [q.tasks EXCEPT ![Head(q.queue)].state = "scheduled"]]

\* the Error of a refused add
queueFullError == [message |-> "Download queue is full.", userMessage |-> queueFull]

\* mutant: add refuses only when more than queueLimit entries wait
add_strictlyMore(q, task, limit, queueLimit) ==
    IF queueLimit.kind = "finite" /\ Len(q.queue) > queueLimit.num
    THEN [q EXCEPT !.tasks = Append(@, [state |-> "refused", task |-> task,
                                        error |-> queueFullError])]
    ELSE runNext([q EXCEPT !.queue = Append(@, Len(q.tasks) + 1),
                           !.tasks = Append(@, [state |-> "waiting", task |-> task,
                                                error |-> Null])],
                 limit)

\* add(task): the new task gets the next index of tasks; a refused task is
\* recorded with the error its promise is rejected with
add(q, task, limit, queueLimit) ==
    IF AtLeast(Len(q.queue), queueLimit)
    THEN [q EXCEPT !.tasks = Append(@, [state |-> "refused", task |-> task,
                                        error |-> queueFullError])]
    ELSE runNext([q EXCEPT !.queue = Append(@, Len(q.tasks) + 1),
                           !.tasks = Append(@, [state |-> "waiting", task |-> task,
                                                error |-> Null])],
                 limit)

\* mutant: a rejected task leaves the waiting entries where they are
settle_noRunNextOnError(q, t, state, error, limit) ==
    LET settled == [active |-> q.active - 1,
                    queue |-> q.queue,
                    tasks |-> [q.tasks EXCEPT ![t].state = state, ![t].error = error]]
    IN  IF state = "rejected" THEN settled ELSE runNext(settled, limit)

\* the handlers chained on the task: active -= 1, the promise of add is
\* settled, runNext()
settle(q, t, state, error, limit) ==
    runNext([active |-> q.active - 1,
             queue |-> q.queue,
             tasks |-> [q.tasks EXCEPT ![t].state = state, ![t].error = error]],
            limit)

\* how many tasks are handed to add at most
MaxTasks == 5

\* the largest limits the configuration is given in the model
MaxConcurrentInput == 2

MaxPendingInput == 2

InitQueue ==
    /\ call = [fn |-> "createTaskQueue"]
    /\ ret = NoRet
    /\ PipelineIdle
    /\ GateIdle
    /\ JobIdle
    /\ PersistIdle
    /\ CacheIdle
    /\ SessionIdle
    /\ DownloaderIdle
    /\ MAX_CONCURRENT_DOWNLOADS \in 1..MaxConcurrentInput
    /\ MAX_PENDING_DOWNLOADS \in 1..MaxPendingInput
    /\ active = 0
    /\ queue = <<>>
    /\ tasks = <<>>

\* a call of add from outside
AddTask ==
    /\ Len(tasks) < MaxTasks
    /\ LET q == add(QueueState, [kind |-> "task"],
                    limitOf(MAX_CONCURRENT_DOWNLOADS),
                    queueLimitOf(MAX_PENDING_DOWNLOADS))
       IN  active' = q.active /\ queue' = q.queue /\ tasks' = q.tasks
    /\ UNCHANGED <<call, ret, pipelineVars, sessionVars, downloaderVars,
                   persistVars, cacheVars, gateVars, jobVars,
                   MAX_CONCURRENT_DOWNLOADS, MAX_PENDING_DOWNLOADS>>

\* Promise.resolve().then(task): the task is called; the microtasks run in
\* the order in which runNext made them, which is the order of the entries
TaskStarts ==
    /\ \E t \in 1..Len(tasks) :
          /\ tasks[t].state = "scheduled"
          /\ \A u \in 1..(t - 1) : tasks[u].state # "scheduled"
          /\ tasks' = [tasks EXCEPT ![t].state = "running"]
    /\ UNCHANGED <<call, ret, pipelineVars, sessionVars, downloaderVars,
                   persistVars, cacheVars, gateVars, jobVars,
                   MAX_CONCURRENT_DOWNLOADS, MAX_PENDING_DOWNLOADS, active, queue>>

\* the task's promise is fulfilled: the .then handler runs
TaskFulfils ==
    /\ \E t \in 1..Len(tasks) :
          /\ tasks[t].state = "running"
          /\ LET q == settle(QueueState, t, "fulfilled", Null,
                             limitOf(MAX_CONCURRENT_DOWNLOADS))
             IN  active' = q.active /\ queue' = q.queue /\ tasks' = q.tasks
    /\ UNCHANGED <<call, ret, pipelineVars, sessionVars, downloaderVars,
                   persistVars, cacheVars, gateVars, jobVars,
                   MAX_CONCURRENT_DOWNLOADS, MAX_PENDING_DOWNLOADS>>

\* the task throws or its promise is rejected: the .catch handler runs
TaskRejects ==
    /\ \E t \in 1..Len(tasks) :
          /\ tasks[t].state = "running"
          /\ LET q == settle(QueueState, t, "rejected",
                             [message |-> "task failed", userMessage |-> ""],
                             limitOf(MAX_CONCURRENT_DOWNLOADS))
             IN  active' = q.active /\ queue' = q.queue /\ tasks' = q.tasks
    /\ UNCHANGED <<call, ret, pipelineVars, sessionVars, downloaderVars,
                   persistVars, cacheVars, gateVars, jobVars,
                   MAX_CONCURRENT_DOWNLOADS, MAX_PENDING_DOWNLOADS>>

NextQueue ==
    \/ AddTask
    \/ TaskStarts
    \/ TaskFulfils
    \/ TaskRejects

SpecQueue == InitQueue /\ [][NextQueue]_vars

\* the event loop runs every queued microtask, and every task that was called
\* settles in the end
SpecQueueFair ==
    /\ SpecQueue
    /\ WF_vars(TaskStarts)
    /\ WF_vars(TaskFulfils \/ TaskRejects)

-----------------------------------------------------------------------------
(* handleDownloadJob *)

TELEGRAM_MAX_FILE_BYTES == 50 * 1024 * 1024

\* messages.captionDefault(), messages.captionFallback()
captionDefault == [kind |-> "text", text |-> "Enjoy bb!"]

captionFallback == [kind |-> "text", text |-> "enjpoy bb!"]

\* messages.qualityLine(text)
qualityLine(text) == [kind |-> "qualityLine", text |-> text]

\* a || b for two strings
OrElse(a, b) == IF a # "" THEN a ELSE b

\* mutant: a missing report is replaced by the fallback label
appendQuality_alwaysLine(caption, qualityInfo) ==
    IF qualityInfo = Null THEN <<caption, qualityLine(qualityFallbackLabel)>>
    ELSE IF Len(qualityInfo.text) = 0 THEN <<caption>>
    ELSE <<caption, qualityLine(qualityInfo.text)>>

\* appendQuality: the caption is the sequence of its lines
appendQuality(caption, qualityInfo) ==
    IF qualityInfo = Null THEN <<caption>>
    ELSE IF Len(qualityInfo.text) = 0 THEN <<caption>>
    ELSE <<caption, qualityLine(qualityInfo.text)>>

buildCaption(metadata, qualityInfo) ==
    IF metadata = Null THEN appendQuality(captionDefault, qualityInfo)
    ELSE LET title == OrElse(metadata.title, metadata.fulltitle)
             artist == OrElse(metadata.uploader, metadata.artist)
         IN  IF title # "" /\ artist # ""
             THEN appendQuality([kind |-> "artist - title", artist |-> artist,
                                 title |-> title], qualityInfo)
             ELSE IF title # ""
             THEN appendQuality([kind |-> "text", text |-> title], qualityInfo)
             ELSE appendQuality(captionFallback, qualityInfo)

\* the metadata pickAudioFile may find: none, or the fields of the info file
MetadataInputs ==
    {Null,
     [title |-> "Track", fulltitle |-> "", uploader |-> "Artist", artist |-> ""],
     [title |-> "", fulltitle |-> "Track", uploader |-> "", artist |-> ""],
     [title |-> "", fulltitle |-> "", uploader |-> "", artist |-> "Artist"]}

\* stats.size: small, at the limit, over it
FileSizes == {1, TELEGRAM_MAX_FILE_BYTES, TELEGRAM_MAX_FILE_BYTES + 1}

\* the reports analyzeTrackQuality may return to the job
JobReports ==
    {buildQualityInfo(details) :
        details \in {d \in DetailsInputs :
                        /\ d.dr_status = "ok"
                        /\ d.dynamic_range = Null
                        /\ d.lufs = Null
                        /\ d.max_significant_freq \in {Null, Finite(19000)}}}

\* how the promise of analyzeTrackQuality settles: no report, a report, an error
AnalysisOutcomes ==
    {Return(Null), Throw("Error")} \cup {Return(r) : r \in JobReports}

\* an awaited call of the Telegram API or of the file system: done or failed
IoOutcomes == {Return(Null), Throw("Error")}

InitJob ==
    /\ call = [fn |-> "handleDownloadJob"]
    /\ ret = NoRet
    /\ PipelineIdle
    /\ QueueIdle
    /\ GateIdle
    /\ PersistIdle
    /\ CacheIdle
    /\ SessionIdle
    /\ DownloaderIdle
    /\ ENABLE_QUALITY_ANALYSIS \in BOOLEAN
    /\ downloadCount \in {0, 41}
    /\ job = [pc |-> "download", download |-> Null, analysis |-> NoRet,
              qualityInfo |-> Null, sendOutcome |-> NoRet, caption |-> <<>>,
              replies |-> <<>>, error |-> Null, countBefore |-> downloadCount,
              outcome |-> NoRet]

\* download = await downloadTrack(url); when it throws, download is still
\* undefined and the finally block has nothing to clean
DownloadTrack ==
    /\ job.pc = "download"
    /\ \/ \E metadata \in MetadataInputs :
             job' = [job EXCEPT !.pc = "stat",
                                !.download = [kind |-> "download", metadata |-> metadata]]
       \/ job' = [job EXCEPT !.pc = "done", !.outcome = Throw("Error")]
    /\ UNCHANGED <<call, ret, pipelineVars, sessionVars, downloaderVars,
                   persistVars, cacheVars, queueVars, gateVars,
                   ENABLE_QUALITY_ANALYSIS, downloadCount>>

\* stats = await fsp.stat(download.path) and the size test with its reply
StatFile ==
    /\ job.pc = "stat"
    /\ \/ job' = [job EXCEPT !.pc = "cleanup", !.error = Throw("Error")]
       \/ \E size \in FileSizes :
             IF size > TELEGRAM_MAX_FILE_BYTES
             THEN \E reply \in IoOutcomes :
                     job' = [job EXCEPT !.pc = "cleanup",
                                        !.replies = Append(@, "fileTooLarge"),
                                        !.error = IF reply.kind = "throw"
                                                  THEN reply ELSE Null]
             ELSE job' = [job EXCEPT !.pc = IF ENABLE_QUALITY_ANALYSIS
                                            THEN "analyze" ELSE "send"]
    /\ UNCHANGED <<call, ret, pipelineVars, sessionVars, downloaderVars,
                   persistVars, cacheVars, queueVars, gateVars,
                   ENABLE_QUALITY_ANALYSIS, downloadCount>>

\* the try/catch around analyzeTrackQuality: an error leaves qualityInfo null
AnalyzeTrackQuality ==
    /\ job.pc = "analyze"
    /\ \E analysis \in AnalysisOutcomes :
          job' = [job EXCEPT !.pc = "send",
                             !.analysis = analysis,
                             !.qualityInfo = IF analysis.kind = "return"
                                             THEN analysis.value ELSE Null]
    /\ UNCHANGED <<call, ret, pipelineVars, sessionVars, downloaderVars,
                   persistVars, cacheVars, queueVars, gateVars,
                   ENABLE_QUALITY_ANALYSIS, downloadCount>>

\* await ctx.replyWithDocument(inputFile, { caption }) and, when it did not
\* throw, incrementDownloadCount()
ReplyWithDocument ==
    /\ job.pc = "send"
    /\ \E sent \in IoOutcomes :
          /\ job' = [job EXCEPT !.pc = "cleanup",
                                !.caption = buildCaption(job.download.metadata,
                                                         job.qualityInfo),
                                !.sendOutcome = sent,
                                !.error = IF sent.kind = "throw" THEN sent ELSE Null]
          /\ downloadCount' = IF sent.kind = "return" THEN downloadCount + 1
                              ELSE downloadCount
    /\ UNCHANGED <<call, ret, pipelineVars, sessionVars, downloaderVars,
                   persistVars, cacheVars, queueVars, gateVars,
                   ENABLE_QUALITY_ANALYSIS>>

\* finally: await cleanupTempDir(download.tempDir); an error of the cleanup
\* replaces the pending one
CleanupTempDir ==
    /\ job.pc = "cleanup"
    /\ \E cleaned \in IoOutcomes :
          job' = [job EXCEPT !.pc = "done",
                             !.outcome = IF cleaned.kind = "throw" THEN cleaned
                                         ELSE IF job.error # Null THEN job.error
                                         ELSE Return(Undefined)]
    /\ UNCHANGED <<call, ret, pipelineVars, sessionVars, downloaderVars,
                   persistVars, cacheVars, queueVars, gateVars,
                   ENABLE_QUALITY_ANALYSIS, downloadCount>>

NextJob ==
    \/ DownloadTrack
    \/ StatFile
    \/ AnalyzeTrackQuality
    \/ ReplyWithDocument
    \/ CleanupTempDir

SpecJob == InitJob /\ [][NextJob]_vars

-----------------------------------------------------------------------------
(* The password gate: bot.command('start'), bot.on('message:text') *)

\* A message text is the sequence of its pieces; the piece " " is white space.
\* process.env.BOT_PASSWORD
ACCESS_PASSWORD == <<"secret">>

RECURSIVE trimStart(_)
trimStart(text) ==
    IF text # <<>> /\ Head(text) = " " THEN trimStart(Tail(text)) ELSE text

RECURSIVE trimEnd(_)
trimEnd(text) ==
    IF text # <<>> /\ text[Len(text)] = " "
    THEN trimEnd(SubSeq(text, 1, Len(text) - 1)) ELSE text

\* String.prototype.trim
trim(text) == trimEnd(trimStart(text))

\* pieces SOUND_CLOUD_REGEX matches
SoundCloudLinks == {"https://soundcloud.com/artist/track"}

\* pieces that are a link to a host of IDHS_SUPPORTED_HOSTS
IdhsLinks == {"https://youtu.be/track"}

\* extractSoundCloudUrl(text) finds a link
hasSoundCloudUrl(text) == \E i \in 1..Len(text) : text[i] \in SoundCloudLinks

\* extractFirstUrl(text) finds a link and isIdhsSupportedLink accepts it
hasIdhsLink(text) == \E i \in 1..Len(text) : text[i] \in IdhsLinks

\* messages.genericError()
genericError == "generic error"

\* formatUserFacingError: error.userMessage when there is one ("" is none)
formatUserFacingError(error) ==
    IF error.userMessage # "" THEN error.userMessage ELSE genericError

\* user ids; ctx.from?.id is 0 when the update has no sender id
Users == {1, 2}

\* how many updates the bot receives at most
MaxUpdates == 3

TextInputs ==
    {ACCESS_PASSWORD,
     <<" ", "secret", " ">>,
     <<"wrong">>,
     <<" ">>,
     <<"https://soundcloud.com/artist/track">>,
     <<"https://youtu.be/track">>}

UpdateInputs ==
    [from : Users, kind : {"start"}, text : {<<"/start">>}]
    \cup [from : Users, kind : {"text"}, text : TextInputs]
    \cup [from : {0}, kind : {"start", "text"}, text : {<<"wrong">>}]

\* the state of the handler of one update
Handler(update, at) ==
    [from |-> update.from, kind |-> update.kind, text |-> update.text,
     pc |-> at, replies |-> <<>>, task |-> 0]

InitGate ==
    /\ call = [fn |-> "bot"]
    /\ ret = NoRet
    /\ PipelineIdle
    /\ JobIdle
    /\ MAX_CONCURRENT_DOWNLOADS = 1
    /\ MAX_PENDING_DOWNLOADS = 1
    /\ active = 0
    /\ queue = <<>>
    /\ tasks = <<>>
    /\ authorizedUsers \in {{}, {2}}
    /\ awaitingPassword = {}
    /\ updates = <<>>
    /\ PersistIdle
    /\ CacheIdle
    /\ SessionIdle
    /\ DownloaderIdle

\* grammY hands an update to its handler
ReceiveUpdate ==
    /\ Len(updates) < MaxUpdates
    /\ \E update \in UpdateInputs :
          updates' = Append(updates, Handler(update, "received"))
    /\ UNCHANGED <<call, ret, pipelineVars, sessionVars, downloaderVars,
                   persistVars, cacheVars, queueVars, jobVars,
                   authorizedUsers, awaitingPassword>>

\* bot.command('start'): await ctx.reply(messages.startIntro())
StartIntro ==
    /\ \E m \in 1..Len(updates) :
          /\ updates[m].kind = "start"
          /\ updates[m].pc = "received"
          /\ updates' = [updates EXCEPT ![m].pc = "intro",
                                        ![m].replies = Append(@, "startIntro")]
    /\ UNCHANGED <<call, ret, pipelineVars, sessionVars, downloaderVars,
                   persistVars, cacheVars, queueVars, jobVars,
                   authorizedUsers, awaitingPassword>>

\* bot.command('start') after its first await; a failed reply ends the handler
StartCheck ==
    /\ \E m \in 1..Len(updates) :
          /\ updates[m].pc = "intro"
          /\ \E replied \in IoOutcomes :
                LET userId == updates[m].from
                IN  IF replied.kind = "throw"
                    THEN /\ updates' = [updates EXCEPT ![m].pc = "done"]
                         /\ awaitingPassword' = awaitingPassword
                    ELSE IF userId = 0
                    THEN /\ updates' = [updates EXCEPT
                                           ![m].pc = "done",
                                           ![m].replies = Append(@, "userIdMissing")]
                         /\ awaitingPassword' = awaitingPassword
                    ELSE IF userId \in authorizedUsers
                    THEN /\ updates' = [updates EXCEPT
                                           ![m].pc = "done",
                                           ![m].replies = Append(@, "alreadyAuthorized")]
                         /\ awaitingPassword' = awaitingPassword
                    ELSE /\ updates' = [updates EXCEPT
                                           ![m].pc = "done",
                                           ![m].replies = Append(@, "promptPassword")]
                         /\ awaitingPassword' = awaitingPassword \cup {userId}
    /\ UNCHANGED <<call, ret, pipelineVars, sessionVars, downloaderVars,
                   persistVars, cacheVars, queueVars, jobVars, authorizedUsers>>

\* mutant: the password is accepted whether or not the user was prompted
handlePasswordFlow_unprompted(userId, messageText, authorized, awaiting) ==
    LET text == trim(messageText)
    IN
    IF text = ACCESS_PASSWORD
    THEN [authorizedUsers |-> authorized \cup {userId},
          awaitingPassword |-> awaiting \ {userId},
          reply |-> "passwordAccepted", pc |-> "done"]
    ELSE IF userId \in awaiting /\ text # <<>>
    THEN [authorizedUsers |-> authorized, awaitingPassword |-> awaiting,
          reply |-> "passwordRejected", pc |-> "rejected"]
    ELSE [authorizedUsers |-> authorized,
          awaitingPassword |-> awaiting \cup {userId},
          reply |-> "promptPassword", pc |-> "done"]

\* handlePasswordFlow up to its await: the two Sets after it, the reply it
\* sends and where the handler is then (after passwordRejected the user is
\* added to awaitingPassword again once the reply is through)
handlePasswordFlow(userId, messageText, authorized, awaiting) ==
    LET text == trim(messageText)
    IN  IF userId \in awaiting
        THEN IF text = <<>>
             THEN [authorizedUsers |-> authorized,
                   awaitingPassword |-> awaiting \cup {userId},
                   reply |-> "promptPassword", pc |-> "done"]
             ELSE IF text = ACCESS_PASSWORD
             THEN [authorizedUsers |-> authorized \cup {userId},
                   awaitingPassword |-> awaiting \ {userId},
                   reply |-> "passwordAccepted", pc |-> "done"]
             ELSE [authorizedUsers |-> authorized, awaitingPassword |-> awaiting,
                   reply |-> "passwordRejected", pc |-> "rejected"]
        ELSE [authorizedUsers |-> authorized,
              awaitingPassword |-> awaiting \cup {userId},
              reply |-> "promptPassword", pc |-> "done"]

\* scheduleAuthorizedPersist(): the Set is marked dirty and the debounce timer
\* is armed unless it already is
scheduleAuthorizedPersist ==
    /\ authorizedUsersDirty' = TRUE
    /\ persistAuthorizedUsersTimer' = TRUE

\* bot.on('message:text') up to its first await, for a text that is not a
\* command
TextMessage ==
    /\ \E m \in 1..Len(updates) :
          /\ updates[m].kind = "text"
          /\ updates[m].pc = "received"
          /\ LET userId == updates[m].from
                 messageText == updates[m].text
             IN  IF userId = 0
                 THEN /\ updates' = [updates EXCEPT
                                        ![m].pc = "done",
                                        ![m].replies = Append(@, "userIdMissing")]
                      /\ UNCHANGED <<authorizedUsers, awaitingPassword,
                                     authorizedUsersDirty,
                                     persistAuthorizedUsersTimer>>
                 ELSE IF userId \notin authorizedUsers
                 THEN LET flow == handlePasswordFlow(userId, messageText,
                                                     authorizedUsers, awaitingPassword)
                      IN  /\ authorizedUsers' = flow.authorizedUsers
                          /\ awaitingPassword' = flow.awaitingPassword
                          /\ IF flow.reply = "passwordAccepted"
                             THEN scheduleAuthorizedPersist
                             ELSE UNCHANGED <<authorizedUsersDirty,
                                              persistAuthorizedUsersTimer>>
                          /\ updates' = [updates EXCEPT
                                            ![m].pc = flow.pc,
                                            ![m].replies = Append(@, flow.reply)]
                 ELSE /\ UNCHANGED <<authorizedUsers, awaitingPassword,
                                     authorizedUsersDirty,
                                     persistAuthorizedUsersTimer>>
                      /\ IF hasSoundCloudUrl(messageText)
                         THEN updates' = [updates EXCEPT
                                             ![m].pc = "prep",
                                             ![m].replies = Append(@, "downloadPrep")]
                         ELSE IF hasIdhsLink(messageText)
                         THEN updates' = [updates EXCEPT
                                             ![m].pc = "resolve",
                                             ![m].replies =
                                                Append(@, "conversionInProgress")]
                         ELSE updates' = [updates EXCEPT
                                             ![m].pc = "done",
                                             ![m].replies =
                                                Append(@, "invalidSoundCloudLink")]
    /\ UNCHANGED <<call, ret, pipelineVars, sessionVars, downloaderVars,
                   persistRunVars, cacheVars, queueVars, jobVars>>

\* handlePasswordFlow after await ctx.reply(messages.passwordRejected())
PasswordRejected ==
    /\ \E m \in 1..Len(updates) :
          /\ updates[m].pc = "rejected"
          /\ \E replied \in IoOutcomes :
                /\ updates' = [updates EXCEPT ![m].pc = "done"]
                /\ awaitingPassword' =
                      IF replied.kind = "throw" THEN awaitingPassword
                      ELSE awaitingPassword \cup {updates[m].from}
    /\ UNCHANGED <<call, ret, pipelineVars, sessionVars, downloaderVars,
                   persistVars, cacheVars, queueVars, jobVars, authorizedUsers>>

\* url = await resolveLinkViaIdhs(candidate), after the reply before it: a
\* SoundCloud link, none, or the reply failed
ResolveLink ==
    /\ \E m \in 1..Len(updates) :
          /\ updates[m].pc = "resolve"
          /\ \/ updates' = [updates EXCEPT ![m].pc = "done"]
             \/ updates' = [updates EXCEPT
                               ![m].pc = "done",
                               ![m].replies = Append(@, "conversionNotFound")]
             \/ updates' = [updates EXCEPT
                               ![m].pc = "prep",
                               ![m].replies = Append(@, "downloadPrep")]
    /\ UNCHANGED <<call, ret, pipelineVars, sessionVars, downloaderVars,
                   persistVars, cacheVars, queueVars, jobVars,
                   authorizedUsers, awaitingPassword>>

\* downloadQueue.add(() => handleDownloadJob(ctx, url)), after
\* await ctx.reply(messages.downloadPrep()): a failed reply ends the handler
EnqueueDownload ==
    /\ \E m \in 1..Len(updates) :
          /\ updates[m].pc = "prep"
          /\ \/ /\ updates' = [updates EXCEPT ![m].pc = "done"]
                /\ UNCHANGED <<active, queue, tasks>>
             \/ LET q == add(QueueState,
                             [kind |-> "handleDownloadJob", update |-> m,
                              user |-> updates[m].from],
                             limitOf(MAX_CONCURRENT_DOWNLOADS),
                             queueLimitOf(MAX_PENDING_DOWNLOADS))
                IN  /\ active' = q.active /\ queue' = q.queue /\ tasks' = q.tasks
                    /\ updates' = [updates EXCEPT ![m].pc = "queued",
                                                  ![m].task = Len(q.tasks)]
    /\ UNCHANGED <<call, ret, pipelineVars, sessionVars, downloaderVars,
                   persistVars, cacheVars, jobVars, MAX_CONCURRENT_DOWNLOADS,
                   MAX_PENDING_DOWNLOADS, authorizedUsers, awaitingPassword>>

\* the promise of add is settled: the handler ends, after the reply of its
\* catch clause when the promise was rejected
DownloadSettled ==
    /\ \E m \in 1..Len(updates) :
          /\ updates[m].pc = "queued"
          /\ LET task == tasks[updates[m].task]
             IN  \/ /\ task.state = "fulfilled"
                    /\ updates' = [updates EXCEPT ![m].pc = "done"]
                 \/ /\ task.state \in {"rejected", "refused"}
                    /\ updates' = [updates EXCEPT
                                      ![m].pc = "done",
                                      ![m].replies =
                                         Append(@, formatUserFacingError(task.error))]
    /\ UNCHANGED <<call, ret, pipelineVars, sessionVars, downloaderVars,
                   persistVars, cacheVars, queueVars, jobVars,
                   authorizedUsers, awaitingPassword>>

NextGate ==
    \/ ReceiveUpdate
    \/ StartIntro
    \/ StartCheck
    \/ TextMessage
    \/ PasswordRejected
    \/ ResolveLink
    \/ EnqueueDownload
    \/ DownloadSettled
    \/ TaskStarts
    \/ TaskFulfils
    \/ TaskRejects

SpecGate == InitGate /\ [][NextGate]_vars

-----------------------------------------------------------------------------
(* Claims about the verdict classifier, checked under SpecClassify *)

Classified == call.fn = "classifyVerdict" /\ ret.kind # "none"

ClassifiedFinite == Classified /\ NumberIsFinite(call.maxFreq)

\* C1: classifyVerdict is total: for every positive sample rate and every
\* max-frequency input (absent, non-finite or finite) it returns, without
\* raising, one verdict whose key is one of the nine keys of VerdictKeys.
C1_ClassifyTotal ==
    Classified => /\ ret.kind = "return"
                  /\ ret.value.verdictKey \in VerdictKeys

C1_Witness ==
    /\ Classified
    /\ call.sampleRate = 96000
    /\ call.maxFreq = Finite(-2)
    /\ ret.value.verdictKey = "fake"

\* C2: the verdict is unknown if and only if the max frequency is absent or
\* non-finite, whatever the sample rate; no finite max frequency is unknown.
C2_UnknownIffAbsent ==
    Classified => (ret.value.verdictKey = "unknown" <=> ~NumberIsFinite(call.maxFreq))

C2_Witness ==
    /\ Classified
    /\ call.sampleRate = 44100
    /\ call.maxFreq = NaN
    /\ ret.value.verdictKey = "unknown"

\* C3: for a sample rate <= 48000 and a finite max frequency, a ratio
\* maxFreq / (sampleRate / 2) in [0.78, 0.93], ends included, gives aac_256
\* and a ratio below 0.78 gives sub_aac_lossy; 48000 Hz with 20000 Hz gives
\* aac_256.
C3_AacBand ==
    ClassifiedFinite /\ call.sampleRate <= 48000 =>
        LET f == call.maxFreq.num
            rate == call.sampleRate
        IN  /\ (78 * rate <= 200 * f /\ 200 * f <= 93 * rate)
                => ret.value.verdictKey = "aac_256"
            /\ 200 * f < 78 * rate => ret.value.verdictKey = "sub_aac_lossy"
            /\ (rate = 48000 /\ f = 20000) => ret.value.verdictKey = "aac_256"

\* the upper end of the band, hit exactly: 22320 / 24000 = 0.93
C3_Witness ==
    /\ ClassifiedFinite
    /\ call.sampleRate = 48000
    /\ call.maxFreq.num = 22320
    /\ ret.value.verdictKey = "aac_256"

\* C4 as stated: 48000 Hz with a max frequency of 19000 Hz gives fake.
C4_Original ==
    (ClassifiedFinite /\ call.sampleRate = 48000 /\ call.maxFreq.num = 19000)
        => ret.value.verdictKey = "fake"

\* C4 amended: 48000 Hz with a max frequency of 19000 Hz gives aac_256: the
\* ratio 19000 / 24000 lies in the AAC band, which is tested before the
\* 48 kHz table and its fake row.
C4_Amended ==
    (ClassifiedFinite /\ call.sampleRate = 48000 /\ call.maxFreq.num = 19000)
        => ret.value = Verdict("aac_256", "Probable AAC-256 source (expected lossy)")

C4_Witness ==
    /\ ClassifiedFinite
    /\ call.sampleRate = 48000
    /\ call.maxFreq.num = 19000
    /\ ret.kind = "return"

\* C5: 48000 Hz with a max frequency of exactly 23760 Hz, 99% of the Nyquist
\* frequency, gives authentic.
C5_Authentic99 ==
    (ClassifiedFinite /\ call.sampleRate = 48000 /\ call.maxFreq.num = 23760)
        => ret.value.verdictKey = "authentic"

C5_Witness ==
    /\ ClassifiedFinite
    /\ call.sampleRate = 48000
    /\ call.maxFreq.num = 23760
    /\ ret.value.verdictLabel = "Authentic"

\* within one FFT bin width (sampleRate / windowSize) of 16000 Hz
NearSixteenK ==
    /\ ClassifiedFinite
    /\ call.sampleRate = 44100
    /\ windowSize * Abs(call.maxFreq.num - 16000) <= call.sampleRate

\* C6 as stated: 44100 Hz with a max frequency within one bin width of
\* 16000 Hz gives fake or likely_fake.
C6_Original == NearSixteenK => ret.value.verdictKey \in {"fake", "likely_fake"}

\* C6 amended: 44100 Hz with a max frequency within one bin width of 16000 Hz
\* gives sub_aac_lossy (the ratio is below 0.78), never fake or likely_fake.
C6_Amended == NearSixteenK => ret.value.verdictKey = "sub_aac_lossy"

C6_Witness ==
    /\ NearSixteenK
    /\ call.maxFreq.num = 16021
    /\ ret.kind = "return"

-----------------------------------------------------------------------------
(* Claims about the dynamic-range estimator, checked under SpecDR *)

DrCalled == call.fn = "computeDynamicRange" /\ ret.kind # "none"

\* the status and values analyzeTrackQuality reports for the outcome
DrReported == drOutcome(ret).value

\* complete 3-second blocks of the per-channel sample count
CompleteBlocks ==
    IF Len(call.channelData) = 0 THEN 0
    ELSE channelLength(call.channelData[1]) \div (3 * call.sampleRate)

AllZeroBuffer ==
    /\ Len(call.channelData) > 0
    /\ \A ch \in 1..Len(call.channelData) :
          \A k \in 1..Len(call.channelData[ch]) : call.channelData[ch][k].value = 0

\* a mono buffer at 44100 Hz with a non-zero sample in every complete block
MonoNonZeroBlocks ==
    /\ DrCalled
    /\ call.sampleRate = 44100
    /\ Len(call.channelData) = 1
    /\ \A b \in 0..(CompleteBlocks - 1) :
          blockStats(call.channelData[1], 3 * call.sampleRate, b).peak > 0

TenSecondMono == MonoNonZeroBlocks /\ channelLength(call.channelData[1]) = 441000

\* C7 as stated: a 10-second mono buffer at 44100 Hz, non-zero in every
\* 3-second block, gets a numeric dynamic range with status ok.
C7_Original ==
    TenSecondMono => /\ DrReported.drStatus = "ok"
                     /\ NumberIsFinite(DrReported.dynamicRange)

\* C7 amended: a 10-second mono buffer at 44100 Hz, non-zero in every
\* 3-second block, has 3 complete blocks, the top 20% of which is no block:
\* the status is too_short and no dynamic range is reported.  A mono buffer,
\* non-zero in every block, with at least 5 complete blocks (15 s or more)
\* gets a numeric dynamic range with status ok.
C7_Amended ==
    /\ TenSecondMono => /\ DrReported.drStatus = "too_short"
                        /\ DrReported.dynamicRange = Null
    /\ (MonoNonZeroBlocks /\ CompleteBlocks >= 5)
          => /\ DrReported.drStatus = "ok"
             /\ NumberIsFinite(DrReported.dynamicRange)

C7_Witness ==
    /\ TenSecondMono
    /\ CompleteBlocks = 3
    /\ ret = Throw("TooShortError")

\* C8: fewer than 2 complete 3-second blocks per channel, a buffer shorter
\* than one block and an empty channel list included, give the status
\* too_short and no dynamic-range value.
C8_TooShort ==
    (DrCalled /\ CompleteBlocks < 2)
        => /\ DrReported.drStatus = "too_short"
           /\ DrReported.dynamicRange = Null

\* exactly one complete block, not silent
C8_Witness ==
    /\ DrCalled
    /\ Len(call.channelData) = 1
    /\ channelLength(call.channelData[1]) = 3 * call.sampleRate
    /\ ~AllZeroBuffer
    /\ DrReported.drStatus = "too_short"

\* C9 as stated: an all-zero buffer with at least one complete 3-second block
\* gets the status silent.
C9_Original ==
    (DrCalled /\ AllZeroBuffer /\ CompleteBlocks >= 1)
        => DrReported.drStatus = "silent_track"

\* C9 amended: an all-zero buffer with at least two complete 3-second blocks
\* gets the status silent (with exactly one block the peak list has fewer
\* than 2 entries and the status is too_short).
C9_Amended ==
    (DrCalled /\ AllZeroBuffer /\ CompleteBlocks >= 2)
        => /\ ret = Throw("SilentTrackError")
           /\ DrReported.drStatus = "silent_track"
           /\ DrReported.dynamicRange = Null

C9_Witness ==
    /\ DrCalled
    /\ AllZeroBuffer
    /\ Len(call.channelData) = 2
    /\ CompleteBlocks = 2
    /\ DrReported.drStatus = "silent_track"

\* C11 as stated: computeDynamicRange never lets an exception escape: for every
\* input it returns a result
C11_Original ==
    DrCalled => ret.kind = "return"

\* C11: computeDynamicRange returns its three values for an analysable input
\* and throws TooShortError or SilentTrackError, and nothing else, for the
\* others; the try/catch of analyzeTrackQuality turns every one of these
\* outcomes into a result tagged ok, too_short or silent_track, ok exactly when
\* computeDynamicRange returned, so no exception escapes analyzeTrackQuality
C11_Amended ==
    DrCalled =>
        /\ ret.kind = "throw" => ret.error \in {"TooShortError", "SilentTrackError"}
        /\ drOutcome(ret).kind = "return"
        /\ DrReported.drStatus \in {"ok", "too_short", "silent_track"}
        /\ DrReported.drStatus = "ok" <=> ret.kind = "return"
        /\ DrReported.drStatus = "too_short" <=> ret = Throw("TooShortError")
        /\ DrReported.drStatus = "silent_track" <=> ret = Throw("SilentTrackError")

\* a silent stereo buffer of ten seconds: computeDynamicRange throws
\* SilentTrackError and the caller reports the status silent_track
C11_Witness ==
    /\ DrCalled
    /\ Len(call.channelData) = 2
    /\ CompleteBlocks = 3
    /\ ret = Throw("SilentTrackError")
    /\ DrReported.drStatus = "silent_track"

-----------------------------------------------------------------------------
(* Claims about detectMaxFrequency, checked under SpecDetect *)

DetectCalled == call.fn = "detectMaxFrequency" /\ ret.kind # "none"

SamplesAbsent == call.samples.kind = "null"

SamplesLength == IF SamplesAbsent THEN 0 ELSE channelLength(call.samples.runs)

SamplesAllZero ==
    /\ ~SamplesAbsent
    /\ \A k \in 1..Len(call.samples.runs) : call.samples.runs[k].value = 0

\* C12: detectMaxFrequency returns absence, without raising, when the samples
\* are absent or fewer than windowSize (2048), and when there are at least 2048
\* samples and all of them are zero; classifyVerdict gives such a result the
\* verdict unknown.
C12_NoSignalIsAbsent ==
    DetectCalled /\ (SamplesAbsent \/ SamplesLength < 2048 \/ SamplesAllZero) =>
        /\ ret = Return(Null)
        /\ classifyVerdict(call.sampleRate, ret.value).verdictKey = "unknown"

\* two runs of 2048 zeros, with significant bins offered: the result is absent
C12_Witness ==
    /\ DetectCalled
    /\ SamplesAllZero
    /\ SamplesLength = 4096
    /\ call.significantBins = {512, 1024}
    /\ ret = Return(Null)

\* C13: the result of detectMaxFrequency is absence or a strictly positive
\* frequency that is at most ceil(sampleRate / 2); it is never 0 or negative.
C13_AbsentOrPositive ==
    DetectCalled =>
        /\ ret.kind = "return"
        /\ \/ ret.value = Null
           \/ /\ ret.value.kind = "finite"
              /\ ret.value.num > 0
              /\ ret.value.num <= CeilDiv(call.sampleRate, 2)

\* the highest bin at 11025 Hz: 5512.5 Hz is rounded up to ceil(11025 / 2)
C13_Witness ==
    /\ DetectCalled
    /\ call.sampleRate = 11025
    /\ 1024 \in call.significantBins
    /\ ret = Return(Finite(5513))

-----------------------------------------------------------------------------
(* Claims about buildQualityInfo, checked under SpecReport *)

ReportBuilt == call.fn = "buildQualityInfo" /\ ret.kind # "none"

HasClause(text, names) == \E i \in 1..Len(text) : text[i].clause \in names

DrClauses == {"DR", "DR n/a (too short)", "DR n/a (silent track)"}

\* C14: buildQualityInfo never fails: for every verdict, max frequency, DR
\* status, DR value and LUFS it returns a report whose rating is the verdict
\* key; the text has the max-frequency clause iff the max frequency is finite,
\* the DR clause iff the status is too_short or silent_track or the DR value is
\* finite, and the LUFS clause iff the LUFS is finite.
C14_ReportNeverFails ==
    ReportBuilt =>
        /\ ret.kind = "return"
        /\ ret.value.rating = call.details.verdict_key
        /\ HasClause(ret.value.text, {"max kHz"})
              <=> NumberIsFinite(call.details.max_significant_freq)
        /\ HasClause(ret.value.text, DrClauses)
              <=> \/ call.details.dr_status \in {"too_short", "silent_track"}
                  \/ NumberIsFinite(call.details.dynamic_range)
        /\ HasClause(ret.value.text, {"LUFS"}) <=> NumberIsFinite(call.details.lufs)

\* a silent track without loudness: the DR clause is there although the DR
\* value is absent, the LUFS clause is not
C14_Witness ==
    /\ ReportBuilt
    /\ call.details.dr_status = "silent_track"
    /\ call.details.dynamic_range = Null
    /\ call.details.lufs = Null
    /\ NumberIsFinite(call.details.max_significant_freq)
    /\ HasClause(ret.value.text, {"DR n/a (silent track)"})
    /\ ~HasClause(ret.value.text, {"LUFS"})

\* the four clauses of the details, in the order verdict, max frequency, DR,
\* LUFS; an empty clause is Null
ClausesOf(details) ==
    <<IF details.verdict_label = "" THEN Null ELSE [clause |-> details.verdict_label],
      IF NumberIsFinite(details.max_significant_freq)
      THEN [clause |-> "max kHz", of |-> details.max_significant_freq] ELSE Null,
      IF details.dr_status = "too_short" THEN [clause |-> "DR n/a (too short)"]
      ELSE IF details.dr_status = "silent_track" THEN [clause |-> "DR n/a (silent track)"]
      ELSE IF NumberIsFinite(details.dynamic_range)
      THEN [clause |-> "DR", of |-> details.dynamic_range] ELSE Null,
      IF NumberIsFinite(details.lufs)
      THEN [clause |-> "LUFS", of |-> details.lufs] ELSE Null>>

NonEmpty(clause) == clause # Null

\* C15: the text is the fallback string if and only if all four clauses are
\* empty; otherwise it is the non-empty clauses in the order verdict, max
\* frequency, DR, LUFS, with the separator between neighbours.
C15_TextIsClausesOrFallback ==
    ReportBuilt =>
        LET clauses == SelectSeq(ClausesOf(call.details), NonEmpty)
            n == Len(clauses)
        IN  /\ ret.value.text = qualityFallbackLabel <=> n = 0
            /\ n > 0 =>
                 /\ Len(ret.value.text) = 2 * n - 1
                 /\ \A i \in 1..n : ret.value.text[2 * i - 1] = clauses[i]
                 /\ \A i \in 1..(n - 1) : ret.value.text[2 * i] = separator

\* max frequency, DR and LUFS without a verdict label: three clauses, two
\* separators
C15_Witness ==
    /\ ReportBuilt
    /\ call.details.verdict_label = ""
    /\ Len(ret.value.text) = 5
    /\ ret.value.text[1].clause = "max kHz"
    /\ ret.value.text[3].clause = "DR"
    /\ ret.value.text[5].clause = "LUFS"

-----------------------------------------------------------------------------
(* Claims about analyzeTrackQuality, checked under Spec *)

\* the audio was decoded and the dynamic-range stage has run
DrStageDone == pc \in {"loudness", "build", "done"} /\ audio # Null

\* the error computeDynamicRange raised for the decoded audio, "" when none
DrError ==
    LET outcome == computeDynamicRange(audio.channelData, audio.sampleRate)
    IN  IF outcome.kind = "throw" THEN outcome.error ELSE ""

\* C10: when the dynamic-range estimation ends in too-short or silent,
\* analyzeTrackQuality goes on and returns a report with the verdict and the
\* max frequency of the spectral analysis, dr_status too_short or
\* silent_track, and no dynamic_range, avg_peak_db, avg_rms_db; the promise
\* is not rejected.
C10_ShortOrSilentStillReports ==
    (DrStageDone /\ DrError \in {"TooShortError", "SilentTrackError"})
        => /\ report.kind # "throw"
           /\ dr.drStatus = (IF DrError = "TooShortError" THEN "too_short"
                             ELSE "silent_track")
           /\ pc = "done" =>
                /\ report.kind = "return"
                /\ report.value.rating = verdict.verdictKey
                /\ report.value.details.verdict_key = verdict.verdictKey
                /\ report.value.details.verdict_label = verdict.verdictLabel
                /\ verdict = classifyVerdict(audio.sampleRate, maxFreq)
                /\ report.value.details.max_significant_freq = maxFreq
                /\ report.value.details.dr_status = dr.drStatus
                /\ report.value.details.dynamic_range = Null
                /\ report.value.details.avg_peak_db = Null
                /\ report.value.details.avg_rms_db = Null

\* a silent track whose spectral verdict is a finite-frequency one
C10_Witness ==
    /\ pc = "done"
    /\ audio # Null
    /\ DrError = "SilentTrackError"
    /\ report.kind = "return"
    /\ report.value.details.dr_status = "silent_track"
    /\ NumberIsFinite(report.value.details.max_significant_freq)
    /\ report.value.rating = "aac_256"

\* the causes for which decodeAudioData gives no audio
ProbeFailed == pc # "probe" /\ meta = Null

SampleRateUnreadable == pc # "probe" /\ meta # Null /\ sampleRateUnreadable(meta)

DecodeFailedOrEmpty == pcm = Null

ZeroSamplesPerChannel == pcm.kind = "pcm" /\ channelLength(pcm.runs) = 0

\* C16: when the stream probe fails, the sample rate cannot be read (missing,
\* zero or non-finite), the PCM decoding fails or is empty, or the decoding
\* yields zero samples per channel, analyzeTrackQuality returns null without
\* raising and neither the spectral analysis nor the dynamic-range estimation
\* nor the loudness probe has been started.
C16_InputUnusableNoReport ==
    ProbeFailed \/ SampleRateUnreadable \/ DecodeFailedOrEmpty \/ ZeroSamplesPerChannel =>
        /\ pc = "done"
        /\ report = Return(Null)
        /\ started = {}

\* ffmpeg delivers one float for a stereo stream: no whole frame
C16_Witness ==
    /\ ZeroSamplesPerChannel
    /\ channelsOf(meta) = 2
    /\ pcm.extra = 1
    /\ pc = "done"
    /\ report = Return(Null)
    /\ started = {}

-----------------------------------------------------------------------------
(* Claims about the task queue, checked under SpecQueue *)

\* the tasks taken from the queue whose promise is not settled
TakenTasks == {t \in 1..Len(tasks) : tasks[t].state \in {"scheduled", "running"}}

\* C19: in every reachable state of the task queue the number of tasks running
\* at once (active, the tasks taken and not settled) is between 0 and
\* MAX_CONCURRENT_DOWNLOADS, for any sequence of add calls, completions and
\* failures.
C19_ActiveWithinLimit ==
    /\ active = Cardinality(TakenTasks)
    /\ active >= 0
    /\ active <= MAX_CONCURRENT_DOWNLOADS

\* two tasks run, a third waits, after a fourth has failed
C19_Witness ==
    /\ MAX_CONCURRENT_DOWNLOADS = 2
    /\ active = 2
    /\ Len(queue) = 1
    /\ \E t \in 1..Len(tasks) : tasks[t].state = "rejected"

\* a step that is a call of add
AddStep == Len(tasks') = Len(tasks) + 1

QueueWasFull == Len(queue) >= MAX_PENDING_DOWNLOADS

\* C20: never more than MAX_PENDING_DOWNLOADS tasks wait; an add made while
\* that many wait is rejected at once with an error that carries the
\* user-facing queue-full message, leaves active and the waiting list as they
\* were, and its task is never run.
C20_FullQueueRefuses ==
    /\ [](Len(queue) <= MAX_PENDING_DOWNLOADS)
    /\ [][/\ AddStep /\ QueueWasFull =>
               /\ tasks'[Len(tasks')].state = "refused"
               /\ tasks'[Len(tasks')].error.userMessage = queueFull
               /\ active' = active
               /\ queue' = queue
          /\ \A t \in 1..Len(tasks) :
               tasks[t].state = "refused" => tasks'[t] = tasks[t]]_vars

\* a refused task while two run and two wait, and a later task accepted
C20_Witness ==
    /\ MAX_PENDING_DOWNLOADS = 2
    /\ MAX_CONCURRENT_DOWNLOADS = 2
    /\ Len(tasks) = 5
    /\ tasks[5].state = "refused"
    /\ tasks[5].error.userMessage = queueFull
    /\ Len(queue) = 2
    /\ active = 2

\* the tasks add has accepted
AcceptedTasks == {t \in 1..Len(tasks) : tasks[t].state # "refused"}

\* the task has been called
TaskStarted(t) == tasks[t].state \in {"running", "fulfilled", "rejected"}

\* the tasks that wait, oldest first
WaitingTasks == {t \in 1..Len(tasks) : tasks[t].state = "waiting"}

\* the promise add returned for the task is settled
TaskSettled(t) == tasks[t].state \in {"fulfilled", "rejected"}

\* C31: the task queue is first in, first out: the waiting list holds the
\* waiting tasks in the order add accepted them, a task is taken and called
\* only when every task accepted before it has been, and whenever a task waits
\* as many tasks are active as the limit allows.
C31_FifoNoIdleSlot ==
    /\ [](/\ \A i \in 1..Len(queue) : queue[i] \in WaitingTasks
          /\ Len(queue) = Cardinality(WaitingTasks)
          /\ \A i, j \in 1..Len(queue) : i < j => queue[i] < queue[j]
          /\ \A t, u \in AcceptedTasks :
                t < u /\ tasks[u].state # "waiting" => tasks[t].state # "waiting"
          /\ \A t, u \in AcceptedTasks : t < u /\ TaskStarted(u) => TaskStarted(t)
          /\ Len(queue) > 0 => active = MAX_CONCURRENT_DOWNLOADS)
    /\ [][\A u \in 1..Len(tasks) :
             ~TaskStarted(u) /\ tasks'[u].state = "running" =>
                 \A t \in AcceptedTasks : t < u => TaskStarted(t)]_vars

\* the first two tasks are settled, the third and fourth run, the fifth waits
C31_Witness ==
    /\ MAX_CONCURRENT_DOWNLOADS = 2
    /\ Len(tasks) = 5
    /\ TaskSettled(1)
    /\ TaskSettled(2)
    /\ tasks[3].state = "running"
    /\ tasks[4].state = "running"
    /\ queue = <<5>>

\* C32: when every called task settles in the end, every task add accepted is
\* called and its promise settles with the task's result or error; active is
\* the number of tasks taken and not settled (one decrement per task,
\* fulfilled or failed), and it is 0 when no task waits, is scheduled or runs.
C32_AcceptedSettles ==
    /\ \A t \in 1..MaxTasks :
          [](t \in AcceptedTasks => <>(t \in AcceptedTasks /\ TaskSettled(t)))
    /\ [](active = Cardinality(TakenTasks))
    /\ [](WaitingTasks = {} /\ TakenTasks = {} => active = 0)
    /\ [][\A t \in 1..Len(tasks) :
             /\ TaskSettled(t) => tasks'[t] = tasks[t]
             /\ tasks[t].state = "running" /\ TaskSettled(t)' =>
                   /\ active' <= active
                   /\ tasks'[t].error = Null <=> tasks'[t].state = "fulfilled"]_vars

\* a task has failed, the tasks after it have settled and the queue is idle
C32_Witness ==
    /\ Len(tasks) = MaxTasks
    /\ tasks[1].state = "rejected"
    /\ \A t \in AcceptedTasks : TaskSettled(t)
    /\ Cardinality(AcceptedTasks) >= 4
    /\ active = 0
    /\ queue = <<>>

-----------------------------------------------------------------------------
(* Claims about handleDownloadJob, checked under SpecJob *)

\* analyzeTrackQuality has returned no report or has raised
AnalysisFailed ==
    job.analysis = Return(Null) \/ job.analysis.kind = "throw"

HasQualityLine(caption) == \E i \in 1..Len(caption) : caption[i].kind = "qualityLine"

\* C17 as stated: whenever analyzeTrackQuality returns no report or raises, the
\* file is sent, with a caption without quality line, and the download is
\* counted
C17_Original ==
    job.pc = "done" /\ AnalysisFailed =>
        /\ job.sendOutcome = Return(Null)
        /\ ~HasQualityLine(job.caption)
        /\ downloadCount = job.countBefore + 1

\* C17: whenever analyzeTrackQuality returns no report or raises, the job goes
\* on to replyWithDocument; the caption it sends has its first line only, no
\* quality line; the download is counted exactly when that call did not fail
C17_Amended ==
    AnalysisFailed =>
        /\ job.pc \in {"send", "cleanup", "done"}
        /\ job.qualityInfo = Null
        /\ job.pc # "send" =>
              /\ job.sendOutcome # NoRet
              /\ Len(job.caption) = 1
              /\ ~HasQualityLine(job.caption)
              /\ job.sendOutcome.kind = "return" => downloadCount = job.countBefore + 1
              /\ job.sendOutcome.kind = "throw" => downloadCount = job.countBefore

\* the analysis raised, the file went out with the artist and title alone and
\* was counted
C17_Witness ==
    /\ job.pc = "done"
    /\ job.analysis.kind = "throw"
    /\ job.sendOutcome = Return(Null)
    /\ job.caption = <<[kind |-> "artist - title", artist |-> "Artist", title |-> "Track"]>>
    /\ downloadCount = 42
    /\ job.outcome = Return(Undefined)

-----------------------------------------------------------------------------
(* Claims about the password gate, checked under SpecGate *)

\* the step starts the handler of the text message m
TextHandled(m) ==
    /\ updates[m].kind = "text"
    /\ updates[m].pc = "received"
    /\ updates'[m].pc # "received"

\* the step calls downloadQueue.add
JobAdded == Len(tasks') = Len(tasks) + 1

\* the step puts user u into authorizedUsers
Enters(u) == u \notin authorizedUsers /\ u \in authorizedUsers'

\* a job is added only for a user who is in authorizedUsers at that moment
AddOnlyForAuthorized ==
    JobAdded => /\ tasks'[Len(tasks')].task.user \in authorizedUsers
                /\ tasks'[Len(tasks')].task.user \in authorizedUsers'

\* a password message from a user who is neither authorized nor prompted only
\* produces the prompt
FirstPasswordOnlyPrompts ==
    \A m \in 1..Len(updates) :
        /\ TextHandled(m)
        /\ updates[m].text = ACCESS_PASSWORD
        /\ updates[m].from \in Users
        /\ updates[m].from \notin authorizedUsers
        /\ updates[m].from \notin awaitingPassword
        => /\ authorizedUsers' = authorizedUsers
           /\ awaitingPassword' = awaitingPassword \cup {updates[m].from}
           /\ updates'[m].replies = <<"promptPassword">>
           /\ updates'[m].pc = "done"
           /\ tasks' = tasks

\* C18 as stated: a job is added for u only if u is in authorizedUsers at that
\* moment; u enters authorizedUsers only by a text exactly equal to the
\* password, sent while u is in awaitingPassword; a first password message of a
\* never-prompted user only produces a prompt
C18_Original ==
    [][/\ AddOnlyForAuthorized
       /\ \A u \in Users :
             Enters(u) => \E m \in 1..Len(updates) :
                             /\ TextHandled(m)
                             /\ updates[m].from = u
                             /\ updates[m].text = ACCESS_PASSWORD
                             /\ u \in awaitingPassword
       /\ FirstPasswordOnlyPrompts]_vars

\* C18: in every interleaving of /start commands and text messages, a job is
\* added to the queue for u only if u is in authorizedUsers at that moment; u
\* enters authorizedUsers only by a text message that equals the password once
\* the white space around it is trimmed, sent while u is in awaitingPassword; a
\* first password message of a never-prompted user only produces a prompt
C18_Amended ==
    [][/\ AddOnlyForAuthorized
       /\ \A u \in Users :
             Enters(u) => \E m \in 1..Len(updates) :
                             /\ TextHandled(m)
                             /\ updates[m].from = u
                             /\ trim(updates[m].text) = ACCESS_PASSWORD
                             /\ u \in awaitingPassword
       /\ FirstPasswordOnlyPrompts]_vars

\* user 1 sends the password unprompted and is prompted, sends it again with
\* white space around it and is let in, then sends a link and gets a job
C18_Witness ==
    /\ Len(updates) = 3
    /\ \A m \in 1..3 : updates[m].from = 1 /\ updates[m].kind = "text"
    /\ updates[1].text = ACCESS_PASSWORD
    /\ updates[1].replies = <<"promptPassword">>
    /\ updates[2].text = <<" ", "secret", " ">>
    /\ updates[2].replies = <<"passwordAccepted">>
    /\ updates[3].task = 1
    /\ tasks[1].task.user = 1
    /\ 1 \in authorizedUsers
    /\ 1 \notin awaitingPassword

-----------------------------------------------------------------------------
(* Saving authorizedUsers: scheduleAuthorizedPersist, persistAuthorizedUsers, *)
(* the signal handlers and flushState                                       *)

\* a call of persistAuthorizedUsers, at its first await
PersistCall(by) == [pc |-> "mkdir", payload |-> {}, tempPath |-> 0, by |-> by]

\* Date.now() of the latest temporary path made so far
lastTempPath ==
    LET paths == {0} \cup {persistCalls[i].tempPath : i \in 1..Len(persistCalls)}
    IN  CHOOSE path \in paths : \A other \in paths : other <= path

\* the content of a temporary file, none when there is no such file
tempFileAt(path) == {file \in tempFiles : file.path = path}

\* the process is alive: its callbacks and its file operations still happen
Alive == shutdown # "exit"

\* no download completes in this specification: downloadCountDirty stays false
\* and persistDownloadCountTimer null, so flushState has only the users to save
InitPersist ==
    /\ call = [fn |-> "persist"]
    /\ ret = NoRet
    /\ PipelineIdle
    /\ QueueIdle
    /\ JobIdle
    /\ CacheIdle
    /\ SessionIdle
    /\ DownloaderIdle
    /\ authorizedUsers \in {{}, {1}}
    /\ awaitingPassword = Users \ authorizedUsers
    /\ updates = <<>>
    /\ PersistIdle

\* a prompted user sends the password: the branch of handlePasswordFlow that
\* adds the user and calls scheduleAuthorizedPersist
Unlock ==
    /\ ~isShuttingDown
    /\ \E userId \in awaitingPassword :
          LET flow == handlePasswordFlow(userId, ACCESS_PASSWORD,
                                         authorizedUsers, awaitingPassword)
          IN  /\ authorizedUsers' = flow.authorizedUsers
              /\ awaitingPassword' = flow.awaitingPassword
    /\ scheduleAuthorizedPersist
    /\ UNCHANGED <<call, ret, pipelineVars, sessionVars, downloaderVars,
                   queueVars, jobVars, cacheVars,
                   updates, persistRunVars>>

\* the callback of the debounce timer, 250 ms after it was armed
TimerFires ==
    /\ Alive
    /\ persistAuthorizedUsersTimer
    /\ persistAuthorizedUsersTimer' = FALSE
    /\ persistCalls' = Append(persistCalls, PersistCall("timer"))
    /\ UNCHANGED <<call, ret, pipelineVars, sessionVars, downloaderVars,
                   queueVars, gateVars, jobVars, cacheVars,
                   authorizedUsersDirty, authStore, tempFiles, isShuttingDown,
                   shutdown>>

\* persistAuthorizedUsers after await fsp.mkdir: the payload is taken from the
\* Set as it is now, the temporary path from Date.now() (the same millisecond
\* as the latest path, or a later one), and writeFile is issued
MkdirDone ==
    /\ Alive
    /\ \E i \in 1..Len(persistCalls) :
          /\ persistCalls[i].pc = "mkdir"
          /\ \E now \in {Max(1, lastTempPath), lastTempPath + 1} :
                persistCalls' = [persistCalls EXCEPT
                                    ![i].pc = "writeFile",
                                    ![i].payload = authorizedUsers,
                                    ![i].tempPath = now]
    /\ UNCHANGED <<call, ret, pipelineVars, sessionVars, downloaderVars,
                   queueVars, gateVars, jobVars, cacheVars,
                   authorizedUsersDirty, persistAuthorizedUsersTimer, authStore,
                   tempFiles, isShuttingDown, shutdown>>

\* the file system writes the temporary file
WriteFileEffect ==
    /\ Alive
    /\ \E i \in 1..Len(persistCalls) :
          /\ persistCalls[i].pc = "writeFile"
          /\ tempFiles' = (tempFiles \ tempFileAt(persistCalls[i].tempPath))
                             \cup {[path |-> persistCalls[i].tempPath,
                                    ids |-> persistCalls[i].payload]}
          /\ persistCalls' = [persistCalls EXCEPT ![i].pc = "written"]
    /\ UNCHANGED <<call, ret, pipelineVars, sessionVars, downloaderVars,
                   queueVars, gateVars, jobVars, cacheVars,
                   authorizedUsersDirty, persistAuthorizedUsersTimer, authStore,
                   isShuttingDown, shutdown>>

\* persistAuthorizedUsers after await fsp.writeFile: rename is issued
WriteFileDone ==
    /\ Alive
    /\ \E i \in 1..Len(persistCalls) :
          /\ persistCalls[i].pc = "written"
          /\ persistCalls' = [persistCalls EXCEPT ![i].pc = "rename"]
    /\ UNCHANGED <<call, ret, pipelineVars, sessionVars, downloaderVars,
                   queueVars, gateVars, jobVars, cacheVars,
                   authorizedUsersDirty, persistAuthorizedUsersTimer, authStore,
                   tempFiles, isShuttingDown, shutdown>>

\* the file system renames the temporary file over AUTH_STORE_PATH, or finds
\* no such file (another call with the same path renamed it already)
RenameEffect ==
    /\ Alive
    /\ \E i \in 1..Len(persistCalls) :
          /\ persistCalls[i].pc = "rename"
          /\ LET files == tempFileAt(persistCalls[i].tempPath)
             IN  IF files = {}
                 THEN /\ persistCalls' = [persistCalls EXCEPT ![i].pc = "ENOENT"]
                      /\ UNCHANGED <<authStore, tempFiles>>
                 ELSE /\ authStore' = (CHOOSE file \in files : TRUE).ids
                      /\ tempFiles' = tempFiles \ files
                      /\ persistCalls' = [persistCalls EXCEPT ![i].pc = "renamed"]
    /\ UNCHANGED <<call, ret, pipelineVars, sessionVars, downloaderVars,
                   queueVars, gateVars, jobVars, cacheVars,
                   authorizedUsersDirty, persistAuthorizedUsersTimer,
                   isShuttingDown, shutdown>>

\* persistAuthorizedUsers after await fsp.rename: authorizedUsersDirty = false,
\* or the promise rejects when rename failed
renameDone(persistCall, dirty) ==
    IF persistCall.pc = "renamed"
    THEN [pc |-> "done", dirty |-> FALSE]
    ELSE [pc |-> "rejected", dirty |-> dirty]

\* the promise of persistAuthorizedUsers settles.  When flushState awaits it,
\* shutdownGracefully settles in the same turn and finally calls process.exit
RenameDone ==
    /\ Alive
    /\ \E i \in 1..Len(persistCalls) :
          /\ persistCalls[i].pc \in {"renamed", "ENOENT"}
          /\ LET after == renameDone(persistCalls[i], authorizedUsersDirty)
             IN  /\ persistCalls' = [persistCalls EXCEPT ![i].pc = after.pc]
                 /\ authorizedUsersDirty' = after.dirty
          /\ shutdown' = IF persistCalls[i].by = "flushState" THEN "exit"
                         ELSE shutdown
    /\ UNCHANGED <<call, ret, pipelineVars, sessionVars, downloaderVars,
                   queueVars, gateVars, jobVars, cacheVars,
                   persistAuthorizedUsersTimer, authStore, tempFiles,
                   isShuttingDown>>

\* process.once(signal): SIGINT or SIGTERM; shutdownGracefully awaits bot.stop()
Signal ==
    /\ ~isShuttingDown
    /\ isShuttingDown' = TRUE
    /\ shutdown' = "stop"
    /\ UNCHANGED <<call, ret, pipelineVars, sessionVars, downloaderVars,
                   queueVars, gateVars, jobVars, cacheVars,
                   authorizedUsersDirty, persistAuthorizedUsersTimer, persistCalls,
                   authStore, tempFiles>>

\* shutdownGracefully after bot.stop(): flushState clears the timer and saves
\* the Set when it is dirty; when nothing is pending it returns and the
\* process exits
FlushState ==
    /\ shutdown = "stop"
    /\ persistAuthorizedUsersTimer' = FALSE
    /\ IF authorizedUsersDirty
       THEN /\ persistCalls' = Append(persistCalls, PersistCall("flushState"))
            /\ shutdown' = "flush"
       ELSE /\ shutdown' = "exit"
            /\ UNCHANGED persistCalls
    /\ UNCHANGED <<call, ret, pipelineVars, sessionVars, downloaderVars,
                   queueVars, gateVars, jobVars, cacheVars,
                   authorizedUsersDirty, authStore, tempFiles, isShuttingDown>>

NextPersist ==
    \/ Unlock
    \/ TimerFires
    \/ MkdirDone
    \/ WriteFileEffect
    \/ WriteFileDone
    \/ RenameEffect
    \/ RenameDone
    \/ Signal
    \/ FlushState

SpecPersist == InitPersist /\ [][NextPersist]_vars

\* C21: after a graceful shutdown the file of the authorized users holds every
\* user id that was in authorizedUsers at shutdown, also when a timer save was
\* in flight or a user unlocked while a save was writing
C21_FileHoldsAuthorizedAtExit ==
    shutdown = "exit" => authorizedUsers \subseteq authStore

-----------------------------------------------------------------------------
(* bot.js with playlists: handleDownloadJob(ctx, url, opts), the task of     *)
(* enqueueNextTrack, sendPlaylistGroup.  One request is followed: a single  *)
(* track (skipSend false) or the tracks of one playlist session (skipSend   *)
(* true), one after the other as enqueueNextTrack awaits each task.  The    *)
(* caption of an upload is left out; cleanupTempDir and the replies other   *)
(* than fileTooLarge are taken to succeed.                                  *)

PLAYLIST_CHUNK_SIZE == 10

PLAYLIST_GROUP_SIZE == 10

\* the longest playlist followed
MaxPlaylistTracks == 2

\* what the quality module hands back as far as bot.js reads it: nothing, or a
\* report with or without a warning
PlaylistQualityInfos == {Null, [warning |-> ""], [warning |-> "reduced quality"]}

\* the sizes of the files of the items of session.buffer
RECURSIVE bufferSizes(_)
bufferSizes(buffer) ==
    IF buffer = <<>> THEN <<>>
    ELSE <<Head(buffer).size>> \o bufferSizes(Tail(buffer))

\* item.qualityInfo?.warning for some item of the buffer
anyWarning(buffer) ==
    \E i \in 1..Len(buffer) :
       buffer[i].qualityInfo # Null /\ buffer[i].qualityInfo.warning # ""

InitPlaylist ==
    /\ call = [fn |-> "request"]
    /\ ret = NoRet
    /\ PipelineIdle
    /\ QueueIdle
    /\ GateIdle
    /\ PersistIdle
    /\ CacheIdle
    /\ SessionIdle
    /\ DownloaderIdle
    /\ ENABLE_QUALITY_ANALYSIS \in BOOLEAN
    /\ downloadCount = 0
    /\ \E skipSend \in BOOLEAN :
          \E tracks \in 1..MaxPlaylistTracks :
             /\ skipSend \/ tracks = 1
             /\ job = [pc |-> "enqueue", skipSend |-> skipSend, tracks |-> tracks,
                       nextIndex |-> 0, buffer |-> <<>>, size |-> 0,
                       qualityInfo |-> Null, result |-> FALSE, replies |-> <<>>,
                       uploads |-> <<>>, oversize |-> 0, tempDirs |-> 0,
                       delivered |-> 0, error |-> Null, after |-> "enqueue"]

\* if (!skipSend) { await ctx.reply(messages.fileTooLarge()) }
oversizeReplies(skipSend) == IF skipSend THEN <<>> ELSE <<"fileTooLarge">>

\* the message handler hands a single track to downloadQueue.add;
\* enqueueNextTrack ends the session after the last track, asks before the next
\* chunk, or hands the next track to downloadQueue.add.  add may refuse.
EnqueueNextTrack ==
    /\ job.pc = "enqueue"
    /\ IF ~job.skipSend
       THEN \/ job' = [job EXCEPT !.pc = "download", !.nextIndex = 1,
                                  !.replies = Append(@, "downloadPrep")]
            \/ job' = [job EXCEPT !.pc = "done", !.nextIndex = 1,
                                  !.replies = @ \o <<"downloadPrep",
                                                 formatUserFacingError(queueFullError)>>]
       ELSE IF job.nextIndex >= job.tracks
       THEN IF job.buffer # <<>>
            THEN job' = [job EXCEPT !.pc = "group", !.after = "enqueue"]
            ELSE job' = [job EXCEPT !.pc = "done",
                                    !.replies = Append(@, "playlistDone")]
       ELSE IF job.nextIndex > 0 /\ job.nextIndex % PLAYLIST_CHUNK_SIZE = 0
       THEN job' = [job EXCEPT !.pc = "prompted",
                               !.replies = Append(@, "playlistChunkPrompt")]
       ELSE \/ job' = [job EXCEPT !.pc = "download", !.nextIndex = @ + 1]
            \/ job' = [job EXCEPT !.pc = "done", !.nextIndex = @ + 1,
                                  !.replies =
                                     Append(@, formatUserFacingError(queueFullError))]
    /\ UNCHANGED <<call, ret, pipelineVars, sessionVars, downloaderVars,
                   persistVars, cacheVars, queueVars, gateVars,
                   ENABLE_QUALITY_ANALYSIS, downloadCount>>

\* download = await downloadTrack(url)
TrackDownload ==
    /\ job.pc = "download"
    /\ \/ job' = [job EXCEPT !.pc = "stat", !.size = 0, !.qualityInfo = Null,
                             !.result = FALSE, !.tempDirs = @ + 1]
       \/ job' = [job EXCEPT !.pc = "caught", !.size = 0, !.qualityInfo = Null,
                             !.result = FALSE, !.error = Throw("Error")]
    /\ UNCHANGED <<call, ret, pipelineVars, sessionVars, downloaderVars,
                   persistVars, cacheVars, queueVars, gateVars,
                   ENABLE_QUALITY_ANALYSIS, downloadCount>>

\* stats = await fsp.stat(download.path) and the size test
TrackStat ==
    /\ job.pc = "stat"
    /\ \/ job' = [job EXCEPT !.pc = "finally", !.error = Throw("Error")]
       \/ \E size \in FileSizes :
             IF size > TELEGRAM_MAX_FILE_BYTES
             THEN \E reply \in IoOutcomes :
                     job' = [job EXCEPT
                                !.pc = "finally",
                                !.size = size,
                                !.oversize = @ + 1,
                                !.replies = @ \o oversizeReplies(job.skipSend),
                                !.error = IF ~job.skipSend /\ reply.kind = "throw"
                                          THEN reply ELSE Null]
             ELSE job' = [job EXCEPT !.size = size,
                                     !.pc = IF ENABLE_QUALITY_ANALYSIS
                                            THEN "analyze" ELSE "send"]
    /\ UNCHANGED <<call, ret, pipelineVars, sessionVars, downloaderVars,
                   persistVars, cacheVars, queueVars, gateVars,
                   ENABLE_QUALITY_ANALYSIS, downloadCount>>

\* the try/catch around analyzeTrackQuality
TrackAnalyze ==
    /\ job.pc = "analyze"
    /\ \E qualityInfo \in PlaylistQualityInfos :
          job' = [job EXCEPT !.pc = "send", !.qualityInfo = qualityInfo]
    /\ UNCHANGED <<call, ret, pipelineVars, sessionVars, downloaderVars,
                   persistVars, cacheVars, queueVars, gateVars,
                   ENABLE_QUALITY_ANALYSIS, downloadCount>>

\* if (skipSend) return { download, qualityInfo }; else replyWithDocument, the
\* warning and incrementDownloadCount
TrackSend ==
    /\ job.pc = "send"
    /\ IF job.skipSend
       THEN /\ job' = [job EXCEPT !.pc = "finally", !.result = TRUE]
            /\ UNCHANGED downloadCount
       ELSE \E sent \in IoOutcomes :
               /\ job' = [job EXCEPT
                             !.pc = "finally",
                             !.uploads = Append(@, [via |-> "replyWithDocument",
                                                    sizes |-> <<job.size>>]),
                             !.delivered = IF sent.kind = "return" THEN @ + 1 ELSE @,
                             !.replies =
                                IF /\ sent.kind = "return"
                                   /\ job.qualityInfo # Null
                                   /\ job.qualityInfo.warning # ""
                                THEN Append(@, "warning") ELSE @,
                             !.error = IF sent.kind = "throw" THEN sent ELSE Null]
               /\ downloadCount' = IF sent.kind = "return" THEN downloadCount + 1
                                   ELSE downloadCount
    /\ UNCHANGED <<call, ret, pipelineVars, sessionVars, downloaderVars,
                   persistVars, cacheVars, queueVars, gateVars,
                   ENABLE_QUALITY_ANALYSIS>>

\* finally: if (download && !skipSend) await cleanupTempDir(download.tempDir)
TrackFinally ==
    /\ job.pc = "finally"
    /\ job' = [job EXCEPT
                  !.tempDirs = IF job.skipSend THEN @ ELSE @ - 1,
                  !.pc = IF job.error # Null THEN "caught"
                         ELSE IF job.skipSend THEN "task" ELSE "done"]
    /\ UNCHANGED <<call, ret, pipelineVars, sessionVars, downloaderVars,
                   persistVars, cacheVars, queueVars, gateVars,
                   ENABLE_QUALITY_ANALYSIS, downloadCount>>

\* the task of enqueueNextTrack after handleDownloadJob: without a result it
\* returns, else the track is buffered and the group sent when it is full or
\* the playlist is through
TaskAfterJob ==
    /\ job.pc = "task"
    /\ IF ~job.result
       THEN job' = [job EXCEPT !.pc = "enqueue"]
       ELSE LET buffer == Append(job.buffer, [size |-> job.size,
                                              qualityInfo |-> job.qualityInfo])
            IN  job' = [job EXCEPT
                           !.buffer = buffer,
                           !.after = "enqueue",
                           !.pc = IF \/ Len(buffer) >= PLAYLIST_GROUP_SIZE
                                     \/ job.nextIndex >= job.tracks
                                  THEN "group" ELSE "enqueue"]
    /\ UNCHANGED <<call, ret, pipelineVars, sessionVars, downloaderVars,
                   persistVars, cacheVars, queueVars, gateVars,
                   ENABLE_QUALITY_ANALYSIS, downloadCount>>

\* sendPlaylistGroup: replyWithMediaGroup, on "entity too large" one
\* replyWithDocument per item (the first failure ends the loop), and finally
\* the count, the cleanup and the warnings for every item; delivered counts
\* the documents whose send call resolved
SendPlaylistGroup ==
    /\ job.pc = "group"
    /\ job.buffer # <<>>
    /\ \E uploads \in
          {<<[via |-> "replyWithMediaGroup", sizes |-> bufferSizes(job.buffer)]>>}
          \cup
          {<<[via |-> "replyWithMediaGroup", sizes |-> bufferSizes(job.buffer)]>>
             \o [i \in 1..n |-> [via |-> "replyWithDocument",
                                 sizes |-> <<job.buffer[i].size>>]] :
             n \in 1..Len(job.buffer)} :
          \E failed \in BOOLEAN :
             /\ Len(uploads) > 1 /\ ~failed => Len(uploads) = 1 + Len(job.buffer)
             /\ job' = [job EXCEPT
                           !.uploads = @ \o uploads,
                           !.delivered =
                              @ + (IF Len(uploads) = 1
                                   THEN (IF failed THEN 0 ELSE Len(job.buffer))
                                   ELSE (IF failed THEN Len(uploads) - 2
                                         ELSE Len(uploads) - 1)),
                           !.replies = IF anyWarning(job.buffer)
                                       THEN Append(@, "warnLines") ELSE @,
                           !.tempDirs = @ - Len(job.buffer),
                           !.buffer = <<>>,
                           !.error = IF failed THEN Throw("Error") ELSE Null,
                           !.pc = IF failed THEN "caught" ELSE job.after]
    /\ downloadCount' = downloadCount + Len(job.buffer)
    /\ UNCHANGED <<call, ret, pipelineVars, sessionVars, downloaderVars,
                   persistVars, cacheVars, queueVars, gateVars,
                   ENABLE_QUALITY_ANALYSIS>>

\* catch (error): await ctx.reply(formatUserFacingError(error)); a playlist
\* goes on with its next track
Caught ==
    /\ job.pc = "caught"
    /\ job' = [job EXCEPT !.replies = Append(@, genericError),
                          !.error = Null,
                          !.pc = IF job.skipSend THEN "enqueue" ELSE "done"]
    /\ UNCHANGED <<call, ret, pipelineVars, sessionVars, downloaderVars,
                   persistVars, cacheVars, queueVars, gateVars,
                   ENABLE_QUALITY_ANALYSIS, downloadCount>>

NextPlaylist ==
    \/ EnqueueNextTrack
    \/ TrackDownload
    \/ TrackStat
    \/ TrackAnalyze
    \/ TrackSend
    \/ TrackFinally
    \/ TaskAfterJob
    \/ SendPlaylistGroup
    \/ Caught

SpecPlaylist == InitPlaylist /\ [][NextPlaylist]_vars

\* how often a reply was sent
RECURSIVE countOf(_, _)
countOf(reply, replies) ==
    IF replies = <<>> THEN 0
    ELSE (IF Head(replies) = reply THEN 1 ELSE 0) + countOf(reply, Tail(replies))

\* no file over the limit was handed to replyWithDocument or replyWithMediaGroup
NoOversizeUpload ==
    \A i \in 1..Len(job.uploads) :
       \A k \in 1..Len(job.uploads[i].sizes) :
          job.uploads[i].sizes[k] <= TELEGRAM_MAX_FILE_BYTES

\* C22: a downloaded file over 50 MB is never uploaded and the user is sent
\* the file-too-large warning, for a single track and for playlist tracks alike
C22_OversizeWarnedNeverUploaded ==
    /\ NoOversizeUpload
    /\ countOf("fileTooLarge", job.replies) = job.oversize

\* C33: every temporary directory downloadTrack created is removed by the
\* time the request is through, whatever became of the download, of the size
\* test and of the send
C33_TempDirsRemoved == job.pc = "done" => job.tempDirs = 0

\* C37: downloadCount is the number of documents delivered: it grows by one
\* with each document whose send succeeded and in no other case, for a single
\* track and for a playlist group
C37_CountIsDelivered == downloadCount = job.delivered

-----------------------------------------------------------------------------
(* Claim C23: the table of the sample rates above 48000 Hz *)

\* the tiers in ascending order
tierOf(key) ==
    CASE key = "fake" -> 1
      [] key = "likely_fake" -> 2
      [] key = "maybe_fake" -> 3
      [] key = "maybe_authentic" -> 4
      [] key = "likely_authentic" -> 5
      [] key = "authentic" -> 6
      [] OTHER -> 0

\* the first matching row, with N = sampleRate / 2 and the fractions of N
\* written as integer inequalities (f < 0.8 * N  <=>  10 * f < 8 * N, 2 * N =
\* sampleRate)
firstRowAbove48000(sampleRate, f) ==
    IF f < 22050 THEN "fake"
    ELSE IF 2 * 2 * f < sampleRate THEN "likely_fake"
    ELSE IF 2 * 10 * f < 8 * sampleRate THEN "maybe_fake"
    ELSE IF 2 * 10 * f < 9 * sampleRate THEN "maybe_authentic"
    ELSE IF 2 * 100 * f < 99 * sampleRate THEN "likely_authentic"
    ELSE "authentic"

ClassifiedAbove48000 == ClassifiedFinite /\ call.sampleRate > 48000

\* C23: above 48000 Hz a finite max frequency gets the first matching row of
\* fake < 22050, likely_fake < 0.5 N, maybe_fake < 0.8 N, maybe_authentic <
\* 0.9 N, likely_authentic < 0.99 N, authentic otherwise; so at a fixed sample
\* rate the tier of a lower frequency is never above the tier of a higher one.
C23_TableAbove48000 ==
    ClassifiedAbove48000 =>
        /\ ret.value.verdictKey = firstRowAbove48000(call.sampleRate, call.maxFreq.num)
        /\ \A lower \in FiniteFreqInputs(call.sampleRate) :
              lower <= call.maxFreq.num =>
                 tierOf(classifyVerdict(call.sampleRate, Finite(lower)).verdictKey)
                    <= tierOf(ret.value.verdictKey)

C23_Witness ==
    /\ ClassifiedAbove48000
    /\ call.sampleRate = 96000
    /\ call.maxFreq.num = 38400
    /\ ret.value.verdictKey = "maybe_authentic"

-----------------------------------------------------------------------------
(* Claim C24: the result of the threshold loop, checked under SpecDetect *)

\* the magnitude spectrum is not all-zero: the call got past maxAmp <= 0
SpectrumNotAllZero ==
    /\ DetectCalled
    /\ ~SamplesAbsent
    /\ SamplesLength >= windowSize
    /\ maxAmpPositive(call.samples.runs, numFramesOf(SamplesLength))

\* the highest of a set of bins
highestBin(bins) == CHOOSE bin \in bins : \A other \in bins : other <= bin

\* C24 as stated: with a spectrum that is not all-zero the result is the
\* frequency of the highest qualifying bin, bin * sampleRate / 2048 rounded up,
\* and it is absent exactly when no bin qualifies.
C24_Original ==
    SpectrumNotAllZero =>
        /\ ret.kind = "return"
        /\ (ret.value = Null) <=> (call.significantBins = {})
        /\ call.significantBins # {} =>
              ret.value = Finite(CeilDiv(highestBin(call.significantBins)
                                            * call.sampleRate, 2048))

\* C24 amended: with a spectrum that is not all-zero the result is the
\* frequency of the highest qualifying bin, bin * sampleRate / 2048 rounded up,
\* when that bin is above bin 0; it is absent exactly when no bin above bin 0
\* qualifies (bin 0 alone gives 0 Hz, which is returned as absence).
C24_Amended ==
    SpectrumNotAllZero =>
        /\ ret.kind = "return"
        /\ (ret.value = Null) <=> (call.significantBins \subseteq {0})
        /\ ~(call.significantBins \subseteq {0}) =>
              ret.value = Finite(CeilDiv(highestBin(call.significantBins)
                                            * call.sampleRate, 2048))

\* bins 0 and 700 qualify at 44100 Hz: 700 * 44100 / 2048 = 15073.2... Hz
C24_Witness ==
    /\ SpectrumNotAllZero
    /\ call.sampleRate = 44100
    /\ call.significantBins = {0, 700}
    /\ ret = Return(Finite(15074))

-----------------------------------------------------------------------------
(* Claim C25: the framing of detectMaxFrequency, checked under SpecDetect *)

\* magnitudes: freqBins columns of numFrames values each
spectrogramOf(length) == [bins |-> freqBins, frames |-> numFramesOf(length)]

\* the framing loops: frame by frame, the indices offset + i, 0 <= i <
\* windowSize, of samples that are read, as the interval from .. to
framesRead(length) ==
    {[from |-> frame * hopLength, to |-> frame * hopLength + windowSize - 1] :
        frame \in 0..(numFramesOf(length) - 1)}

\* the framing loops ran: there are samples, at least windowSize of them
Framed == DetectCalled /\ ~SamplesAbsent /\ SamplesLength >= windowSize

\* C25: for n >= 2048 samples the spectrogram has 1025 bins and
\* floor((n - 2048) / 512) + 1 frames, every index read while framing is below
\* n, and the samples after the last whole window are not read.
C25_FramingInBounds ==
    Framed =>
        LET n == SamplesLength
            reads == framesRead(n)
        IN  /\ spectrogramOf(n).bins = 1025
            /\ spectrogramOf(n).frames = (n - 2048) \div 512 + 1
            /\ Cardinality(reads) = (n - 2048) \div 512 + 1
            /\ \A read \in reads : 0 <= read.from /\ read.to < n
            /\ \E read \in reads :
                  /\ \A other \in reads : other.to <= read.to
                  /\ n - 1 - read.to = (n - 2048) % 512

\* 4095 samples: 4 frames, the last index read is 3583, 511 samples are left
C25_Witness ==
    /\ Framed
    /\ SamplesLength = 4095
    /\ spectrogramOf(SamplesLength).frames = 4
    /\ [from |-> 1536, to |-> 3583] \in framesRead(SamplesLength)

-----------------------------------------------------------------------------
(* Inputs of applySavitzkyGolay *)

\* the longest of the short series, in values
MaxSeries == 4

\* smoothed decibel values: 0 dB and below
SeriesValues == {0, -3}

\* short series of every shape, and three series longer than the window: a
\* ramp, a step, and one column of the spectrogram (freqBins values)
SeriesInputs ==
    UNION {[1..n -> SeriesValues] : n \in 0..MaxSeries}
    \cup {[p \in 1..12 |-> -p], [p \in 1..13 |-> IF p < 7 THEN 0 ELSE -3],
          [p \in 1..freqBins |-> -(p % 3)]}

\* windows: the one in use, shorter odd ones, and an even one
SgWindows == {1, 3, 4, 5, sgWindowSize}

SgOrders == {1, polyOrder}

InitSG ==
    /\ \E series \in SeriesInputs :
         \E size \in SgWindows :
            \E order \in SgOrders :
               call = [fn |-> "applySavitzkyGolay", series |-> series,
                       windowSize |-> size, polyOrder |-> order]
    /\ ret = NoRet
    /\ PipelineIdle
    /\ QueueIdle
    /\ GateIdle
    /\ JobIdle
    /\ PersistIdle
    /\ CacheIdle
    /\ SessionIdle
    /\ DownloaderIdle

CallApplySavitzkyGolay ==
    /\ call.fn = "applySavitzkyGolay"
    /\ ret = NoRet
    /\ ret' = applySavitzkyGolay(call.series, call.windowSize, call.polyOrder)
    /\ UNCHANGED <<call, pipelineVars, botVars>>

NextSG == CallApplySavitzkyGolay

SpecSG == InitSG /\ [][NextSG]_vars

\* applySavitzkyGolay was called on a series that is not empty
SgCalled ==
    /\ call.fn = "applySavitzkyGolay"
    /\ ret.kind # "none"
    /\ Len(call.series) >= 1

\* C29: applySavitzkyGolay returns a series as long as its input; for every
\* output position each of the window's reads is at the index i + j - half
\* clamped into 0 .. length - 1 (the edge value is repeated), so no read is out
\* of bounds and no position is dropped, for every length from 1 on, also
\* below the window length.
C29_ClampedSameLength ==
    (SgCalled /\ ret.kind = "return") =>
        LET length == Len(call.series)
            half == (call.windowSize - 1) \div 2
        IN  /\ Len(ret.value.values) = length
            /\ \A p \in 1..length :
                  /\ ret.value.values[p].kind = "finite"
                  /\ \A j \in 0..(call.windowSize - 1) :
                        LET raw == (p - 1) + j - half
                            idx == readsAt(p - 1, length, call.windowSize)[j + 1]
                        IN  /\ 0 <= idx /\ idx <= length - 1
                            /\ idx = IF raw < 0 THEN 0
                                     ELSE IF raw > length - 1 THEN length - 1
                                     ELSE raw

\* the window in use on a series of 3 values: all three positions are there
C29_Witness ==
    /\ SgCalled
    /\ call.windowSize = sgWindowSize
    /\ call.polyOrder = polyOrder
    /\ Len(call.series) = 3
    /\ ret.kind = "return"
    /\ Len(ret.value.values) = 3

-----------------------------------------------------------------------------
(* Several analyses in one process: the Maps FFT_TABLE_CACHE and             *)
(* SG_COEFF_CACHE across calls of detectMaxFrequency.  detectMaxFrequency    *)
(* has no await, so the calls of concurrent analyses happen one at a time,   *)
(* in any order.                                                             *)

\* how many analyses are followed
MaxAnalyses == 2

\* the buffers analysed: none, too short, silence, one frame, five frames
CacheSamplesInputs ==
    {Null,
     Float32Array(<<[value |-> 1, count |-> windowSize - 1]>>),
     Float32Array(<<[value |-> 0, count |-> windowSize]>>),
     Float32Array(<<[value |-> 1, count |-> windowSize]>>),
     Float32Array(<<[value |-> 1, count |-> windowSize],
                    [value |-> 0, count |-> windowSize]>>)}

CacheBinsInputs == {{}, {700}}

InitCache ==
    /\ call = [fn |-> "analyses"]
    /\ ret = NoRet
    /\ PipelineIdle
    /\ QueueIdle
    /\ GateIdle
    /\ JobIdle
    /\ PersistIdle
    /\ CacheIdle
    /\ SessionIdle
    /\ DownloaderIdle

\* handleDownloadJob calls analyzeTrackQuality, which awaits decodeAudioData
AnalysisStarts ==
    /\ Len(analyses) < MaxAnalyses
    /\ \E samples \in CacheSamplesInputs :
          \E bins \in CacheBinsInputs :
             analyses' = Append(analyses,
                                [pc |-> "decode", samples |-> samples,
                                 sampleRate |-> 44100, significantBins |-> bins,
                                 outcome |-> NoRet, fftTables |-> {},
                                 sgTables |-> {}, windowed |-> FALSE,
                                 smoothed |-> FALSE, quality |-> FALSE])
    /\ UNCHANGED <<call, ret, pipelineVars, sessionVars, downloaderVars,
                   queueVars, gateVars, jobVars, persistVars,
                   FFT_TABLE_CACHE, SG_COEFF_CACHE, computed>>

\* analyzeTrackQuality from the decoded audio to its next await: the call of
\* detectMaxFrequency (classifyVerdict and computeDynamicRange write no state
\* of the module); an error of the smoothing rejects the promise
AnalysisDetects ==
    /\ \E i \in 1..Len(analyses) :
          /\ analyses[i].pc = "decode"
          /\ LET run == detectRun(analyses[i].samples, analyses[i].sampleRate,
                                  analyses[i].significantBins,
                                  FFT_TABLE_CACHE, SG_COEFF_CACHE, computed)
             IN  /\ FFT_TABLE_CACHE' = run.fft
                 /\ SG_COEFF_CACHE' = run.sg
                 /\ computed' = run.counts
                 /\ analyses' = [analyses EXCEPT
                                    ![i].pc = IF run.outcome.kind = "throw"
                                              THEN "threw" ELSE "loudness",
                                    ![i].outcome = run.outcome,
                                    ![i].fftTables = run.fftTables,
                                    ![i].sgTables = run.sgTables,
                                    ![i].windowed = run.windowed,
                                    ![i].smoothed = run.smoothed]
    /\ UNCHANGED <<call, ret, pipelineVars, sessionVars, downloaderVars,
                   queueVars, gateVars, jobVars, persistVars>>

\* the rest of the request: the report is returned after the loudness probe,
\* or the catch of handleDownloadJob leaves qualityInfo null; either way the
\* job goes on to replyWithDocument
AnalysisSettles ==
    /\ \E i \in 1..Len(analyses) :
          /\ analyses[i].pc \in {"loudness", "threw"}
          /\ analyses' = [analyses EXCEPT
                             ![i].pc = "sent",
                             ![i].quality = (analyses[i].pc = "loudness")]
    /\ UNCHANGED <<call, ret, pipelineVars, sessionVars, downloaderVars,
                   queueVars, gateVars, jobVars, persistVars,
                   FFT_TABLE_CACHE, SG_COEFF_CACHE, computed>>

NextCache ==
    \/ AnalysisStarts
    \/ AnalysisDetects
    \/ AnalysisSettles

SpecCache == InitCache /\ [][NextCache]_vars

\* the keys of a Map
keysOf(cache) == {entry.key : entry \in cache}

\* the analyses that have called detectMaxFrequency
Detected == {i \in 1..Len(analyses) : analyses[i].pc # "decode"}

\* C26: over any sequence or interleaving of analyses the FFT tables are
\* computed and set at most once per size and the Savitzky-Golay coefficients
\* at most once per window and order; an entry once set is never replaced or
\* changed, so every lookup of a key returns the same table; and the two Maps
\* are the only state of the module an analysis writes.
C26_CachesFilledOnce ==
    /\ [](/\ computed.fft = Cardinality(keysOf(FFT_TABLE_CACHE))
          /\ computed.sg = Cardinality(keysOf(SG_COEFF_CACHE))
          /\ Cardinality(FFT_TABLE_CACHE) = Cardinality(keysOf(FFT_TABLE_CACHE))
          /\ Cardinality(SG_COEFF_CACHE) = Cardinality(keysOf(SG_COEFF_CACHE))
          /\ \A i \in Detected :
                /\ analyses[i].fftTables \subseteq FFT_TABLE_CACHE
                /\ analyses[i].sgTables \subseteq SG_COEFF_CACHE
                /\ analyses[i].windowed => Cardinality(analyses[i].fftTables) = 1
                /\ (analyses[i].smoothed /\ analyses[i].outcome.kind = "return")
                      => Cardinality(analyses[i].sgTables) = 1)
    /\ [][/\ FFT_TABLE_CACHE \subseteq FFT_TABLE_CACHE'
          /\ SG_COEFF_CACHE \subseteq SG_COEFF_CACHE'
          /\ UNCHANGED <<queueVars, gateVars, jobVars, persistVars, call, ret>>]_vars

\* two analyses with a signal were run: one entry in each Map, made by the
\* first of them
C26_Witness ==
    /\ Len(analyses) = 2
    /\ \A i \in 1..2 : analyses[i].pc = "sent" /\ analyses[i].smoothed
    /\ computed.fft = 1
    /\ computed.sg = 1
    /\ \A i \in 1..2 : analyses[i].sgTables = SG_COEFF_CACHE

\* the analyses that got as far as the Hann window
Windowed == {i \in Detected : analyses[i].windowed}

\* C27 as stated: the Hann window of a length is computed at most once in a
\* process; later analyses use the cached table.
C27_Original == computed.hann <= 1

\* C27 amended: the Hann window is not cached: every call of
\* detectMaxFrequency that gets past the length tests computes the 2048
\* coefficients anew, so they are computed once per such analysis (only the
\* FFT tables and the Savitzky-Golay coefficients are kept between analyses).
C27_Amended ==
    /\ computed.hann = Cardinality(Windowed)
    /\ computed.fft <= 1

\* two analyses got to the window: it was computed twice, the FFT tables once
C27_Witness ==
    /\ Cardinality(Windowed) = 2
    /\ computed.hann = 2
    /\ computed.fft = 1

\* the analyses that got as far as the smoothing
Smoothed == {i \in Detected : analyses[i].smoothed}

-----------------------------------------------------------------------------
(* Claims about the order of the stages of analyzeTrackQuality, checked under
   Spec *)

\* decodeAudioData has resolved to a decoded buffer
DecodeCompleted == audio # Null

\* detectMaxFrequency has returned
SpectralDone == "detectMaxFrequency" \in started

\* classifyVerdict has returned
ClassifierRan == verdict # Null

\* computeDynamicRange has returned or thrown
DynamicRangeDone == "computeDynamicRange" \in started

\* measureIntegratedLoudness has resolved
LoudnessDone == "measureIntegratedLoudness" \in started

\* buildQualityInfo has returned the report
BuilderRan == report.kind = "return" /\ report.value # Null

\* C30 as stated: decoding completes before the spectral analysis, the
\* dynamic-range estimation or the loudness probe starts; the classifier runs
\* only after those three have all completed; the report builder runs after
\* the classifier.
C30_Original ==
    /\ SpectralDone \/ DynamicRangeDone \/ LoudnessDone => DecodeCompleted
    /\ ClassifierRan => SpectralDone /\ DynamicRangeDone /\ LoudnessDone
    /\ BuilderRan => ClassifierRan

\* C30 amended: decoding completes before the spectral analysis, the
\* dynamic-range estimation or the loudness probe starts; the stages then run
\* one after the other in the order spectral analysis, classifier,
\* dynamic-range estimation, loudness probe: the classifier runs after the
\* spectral analysis alone and before the other two; the report builder runs
\* after all of them and no stage runs after it.
C30_Amended ==
    /\ [](/\ SpectralDone \/ DynamicRangeDone \/ LoudnessDone => DecodeCompleted
          /\ ClassifierRan => SpectralDone
          /\ DynamicRangeDone => ClassifierRan
          /\ LoudnessDone => DynamicRangeDone
          /\ BuilderRan => ClassifierRan /\ LoudnessDone)
    /\ [][~BuilderRan]_vars

\* the classifier has run and neither the dynamic-range estimation nor the
\* loudness probe has
C30_Witness ==
    /\ DecodeCompleted
    /\ ClassifierRan
    /\ SpectralDone
    /\ ~DynamicRangeDone
    /\ ~LoudnessDone
    /\ pc = "dynamicRange"

-----------------------------------------------------------------------------
(* Playlist sessions: handlePlaylistRequest, enqueueNextTrack, the task it
   hands to downloadQueue, sendPlaylistGroup and the callback handler of the
   prompt's buttons (bot.js).  One session is followed.  A track is the
   index of its URL in session.tracks; the tracks of BrokenTracks fail to
   download.  A call is one invocation of enqueueNextTrack (the recursive
   call at its end goes on in the same entry) or of the callback handler. *)

\* sessionId = `${ctx.from.id}-${Date.now()}`
SessionId == "1-0"

\* ctx.from.id of the playlist request
Owner == 1

\* the lengths of the playlists followed
MaxSessionTracks == 21

SessionTrackCounts == {2, 12, MaxSessionTracks}

\* the tracks whose download fails: none, the first, or all but the last of
\* the longest playlist
BrokenTracks(length) ==
    IF length = MaxSessionTracks THEN {0..(length - 2)} ELSE {{}, {0}}

\* how many times a button is pressed
MaxPresses == 2

\* a call of enqueueNextTrack or of the callback handler
Call(at, force) ==
    [pc |-> at, force |-> force, task |-> 0, track |-> 0, job |-> "none", media |-> <<>>]

InitSession ==
    /\ call = [fn |-> "handlePlaylistRequest"]
    /\ ret = NoRet
    /\ PipelineIdle
    /\ GateIdle
    /\ JobIdle
    /\ PersistIdle
    /\ CacheIdle
    /\ DownloaderIdle
    /\ MAX_CONCURRENT_DOWNLOADS = DefaultMaxConcurrentDownloads
    /\ MAX_PENDING_DOWNLOADS = DefaultMaxPendingDownloads
    /\ active = 0
    /\ queue = <<>>
    /\ tasks = <<>>
    /\ \E length \in SessionTrackCounts :
          \E broken \in BrokenTracks(length) :
             session = [id |-> SessionId, userId |-> Owner,
                        tracks |-> [i \in 1..length |->
                                      [url |-> i - 1, broken |-> (i - 1) \in broken]],
                        nextIndex |-> 0, awaitingPrompt |-> FALSE, buffer |-> <<>>]
    /\ playlistSessions = {SessionId}
    /\ calls = <<Call("enter", FALSE)>>
    /\ observed = [submitted |-> <<>>, prompts |-> <<>>, documents |-> <<>>,
                   tempDirs |-> {}, presses |-> <<>>, stopped |-> Null]

\* the remainder test of the chunk gate
atChunkBoundary(nextIndex) == nextIndex > 0 /\ nextIndex % PLAYLIST_CHUNK_SIZE = 0

\* mutant: a forced call takes the track before nextIndex again
trackTaken_forcedAgain(s, force) ==
    IF force /\ s.nextIndex > 0 THEN s.nextIndex - 1 ELSE s.nextIndex

\* const trackUrl = session.tracks[session.nextIndex]
trackTaken(s, force) == s.nextIndex

\* the queue after a settle or an add, written to its variables
QueueBecomes(q) == active' = q.active /\ queue' = q.queue /\ tasks' = q.tasks

\* sendPlaylistGroup up to await ctx.replyWithMediaGroup(media): it returns at
\* once without the session or with an empty buffer
groupSendStarts(sessions, buffer) == SessionId \in sessions /\ buffer # <<>>

\* enqueueNextTrack from its entry to its first await
EnqueueTrack ==
    /\ \E c \in 1..Len(calls) :
          /\ calls[c].pc = "enter"
          /\ IF SessionId \notin playlistSessions
             THEN /\ calls' = [calls EXCEPT ![c].pc = "done"]
                  /\ UNCHANGED <<session, playlistSessions, observed, active, queue,
                                 tasks>>
             ELSE IF session.nextIndex >= Len(session.tracks)
             THEN /\ IF session.buffer # <<>>
                     THEN /\ calls' = [calls EXCEPT ![c].pc = "sendGroup",
                                                    ![c].media = session.buffer]
                          /\ observed' = [observed EXCEPT
                                             !.documents = @ \o session.buffer]
                     ELSE /\ calls' = [calls EXCEPT ![c].pc = "playlistDone"]
                          /\ UNCHANGED observed
                  /\ UNCHANGED <<session, playlistSessions, active, queue, tasks>>
             ELSE IF ~calls[c].force /\ atChunkBoundary(session.nextIndex)
             THEN /\ IF session.awaitingPrompt
                     THEN /\ calls' = [calls EXCEPT ![c].pc = "done"]
                          /\ UNCHANGED observed
                     ELSE /\ calls' = [calls EXCEPT ![c].pc = "prompt"]
                          /\ observed' = [observed EXCEPT
                                             !.prompts =
                                                Append(@, [at |-> session.nextIndex,
                                                           keyboard |-> TRUE])]
                  /\ UNCHANGED <<session, playlistSessions, active, queue, tasks>>
             ELSE LET track == trackTaken(session, calls[c].force)
                      q == add(QueueState,
                               [kind |-> "playlistTrack", track |-> track],
                               limitOf(MAX_CONCURRENT_DOWNLOADS),
                               queueLimitOf(MAX_PENDING_DOWNLOADS))
                      accepted == q.tasks[Len(q.tasks)].state # "refused"
                  IN  /\ session' = [session EXCEPT !.nextIndex = @ + 1]
                      /\ playlistSessions' = playlistSessions \cup {SessionId}
                      /\ QueueBecomes(q)
                      /\ observed' = [observed EXCEPT !.submitted = Append(@, track)]
                      /\ calls' = [calls EXCEPT
                                      ![c].pc = IF accepted THEN "queued" ELSE "caught",
                                      ![c].force = FALSE,
                                      ![c].track = track,
                                      ![c].task = Len(q.tasks),
                                      ![c].job = IF accepted THEN "download"
                                                 ELSE "none"]
    /\ UNCHANGED <<call, ret, pipelineVars, gateVars, jobVars, persistVars, cacheVars,
                   downloaderVars, MAX_CONCURRENT_DOWNLOADS, MAX_PENDING_DOWNLOADS>>

\* the prompt was sent: session.awaitingPrompt = true and the session is set
PromptReplied ==
    /\ \E c \in 1..Len(calls) :
          /\ calls[c].pc = "prompt"
          /\ session' = [session EXCEPT !.awaitingPrompt = TRUE]
          /\ playlistSessions' = playlistSessions \cup {SessionId}
          /\ calls' = [calls EXCEPT ![c].pc = "done"]
    /\ UNCHANGED <<call, ret, pipelineVars, queueVars, gateVars, jobVars, persistVars,
                   cacheVars, downloaderVars, observed>>

\* the task: downloadTrack inside handleDownloadJob(ctx, trackUrl, {skipSend})
JobDownload ==
    /\ \E c \in 1..Len(calls) :
          /\ calls[c].pc = "queued"
          /\ calls[c].job = "download"
          /\ tasks[calls[c].task].state = "running"
          /\ IF session.tracks[calls[c].track + 1].broken
             THEN /\ QueueBecomes(settle(QueueState, calls[c].task, "rejected",
                                         [message |-> "download failed",
                                          userMessage |-> ""],
                                         limitOf(MAX_CONCURRENT_DOWNLOADS)))
                  /\ calls' = [calls EXCEPT ![c].job = "none"]
                  /\ UNCHANGED observed
             ELSE /\ observed' = [observed EXCEPT
                                     !.tempDirs = @ \cup {calls[c].track}]
                  /\ calls' = [calls EXCEPT ![c].job = "stat"]
                  /\ UNCHANGED <<active, queue, tasks>>
    /\ UNCHANGED <<call, ret, pipelineVars, gateVars, jobVars, persistVars, cacheVars,
                   downloaderVars, MAX_CONCURRENT_DOWNLOADS, MAX_PENDING_DOWNLOADS,
                   session, playlistSessions>>

\* the task after handleDownloadJob returned { download, qualityInfo }: the
\* push to session.buffer and, for a full buffer or the last track,
\* sendPlaylistGroup up to its await
JobReturns ==
    /\ \E c \in 1..Len(calls) :
          /\ calls[c].pc = "queued"
          /\ calls[c].job = "stat"
          /\ tasks[calls[c].task].state = "running"
          /\ LET buffer == Append(session.buffer, calls[c].track)
             IN  /\ session' = [session EXCEPT !.buffer = buffer]
                 /\ IF /\ \/ Len(buffer) >= PLAYLIST_GROUP_SIZE
                          \/ session.nextIndex >= Len(session.tracks)
                       /\ groupSendStarts(playlistSessions, buffer)
                    THEN /\ calls' = [calls EXCEPT ![c].job = "sendGroup",
                                                   ![c].media = buffer]
                         /\ observed' = [observed EXCEPT !.documents = @ \o buffer]
                         /\ UNCHANGED <<active, queue, tasks>>
                    ELSE /\ QueueBecomes(settle(QueueState, calls[c].task, "fulfilled",
                                                Null,
                                                limitOf(MAX_CONCURRENT_DOWNLOADS)))
                         /\ calls' = [calls EXCEPT ![c].job = "none"]
                         /\ UNCHANGED observed
    /\ UNCHANGED <<call, ret, pipelineVars, gateVars, jobVars, persistVars, cacheVars,
                   downloaderVars, MAX_CONCURRENT_DOWNLOADS, MAX_PENDING_DOWNLOADS,
                   playlistSessions>>

\* sendPlaylistGroup after replyWithMediaGroup settled: the finally block
\* counts and removes every item session.buffer holds by then, empties the
\* buffer and sets the session; an error of the send is thrown on
GroupReplied ==
    /\ \E c \in 1..Len(calls) :
          /\ calls[c].pc = "sendGroup" \/ calls[c].job = "sendGroup"
          /\ \E sent \in IoOutcomes :
                /\ downloadCount' = downloadCount + Len(session.buffer)
                /\ observed' = [observed EXCEPT
                                   !.tempDirs =
                                      @ \ {session.buffer[i] :
                                              i \in 1..Len(session.buffer)}]
                /\ session' = [session EXCEPT !.buffer = <<>>]
                /\ playlistSessions' = playlistSessions \cup {SessionId}
                /\ IF calls[c].pc = "sendGroup"
                   THEN /\ calls' = [calls EXCEPT
                                        ![c].pc = IF sent.kind = "return"
                                                  THEN "playlistDone" ELSE "caught",
                                        ![c].media = <<>>]
                        /\ UNCHANGED <<active, queue, tasks>>
                   ELSE /\ calls' = [calls EXCEPT ![c].job = "none",
                                                  ![c].media = <<>>]
                        /\ QueueBecomes(
                              settle(QueueState, calls[c].task,
                                     IF sent.kind = "return" THEN "fulfilled"
                                     ELSE "rejected",
                                     IF sent.kind = "return" THEN Null
                                     ELSE [message |-> "send failed",
                                           userMessage |-> ""],
                                     limitOf(MAX_CONCURRENT_DOWNLOADS)))
    /\ UNCHANGED <<call, ret, pipelineVars, gateVars, persistVars, cacheVars,
                   downloaderVars, MAX_CONCURRENT_DOWNLOADS, MAX_PENDING_DOWNLOADS,
                   ENABLE_QUALITY_ANALYSIS, job>>

\* await downloadQueue.add(...) settled: the next call of enqueueNextTrack, or
\* the catch clause
AddSettled ==
    /\ \E c \in 1..Len(calls) :
          /\ calls[c].pc = "queued"
          /\ \/ /\ tasks[calls[c].task].state = "fulfilled"
                /\ calls' = [calls EXCEPT ![c].pc = "enter"]
             \/ /\ tasks[calls[c].task].state = "rejected"
                /\ calls' = [calls EXCEPT ![c].pc = "caught"]
    /\ UNCHANGED <<call, ret, pipelineVars, queueVars, gateVars, jobVars, persistVars,
                   cacheVars, downloaderVars, session, playlistSessions, observed>>

\* catch (error): the reply, then the next call of enqueueNextTrack; no error
\* of the queue or of the job carries the code QUEUE_FULL
PlaylistCaught ==
    /\ \E c \in 1..Len(calls) :
          /\ calls[c].pc = "caught"
          /\ calls' = [calls EXCEPT ![c].pc = "enter"]
    /\ UNCHANGED <<call, ret, pipelineVars, queueVars, gateVars, jobVars, persistVars,
                   cacheVars, downloaderVars, session, playlistSessions, observed>>

\* await ctx.reply(messages.playlistDone()) is through: the session is deleted
PlaylistDone ==
    /\ \E c \in 1..Len(calls) :
          /\ calls[c].pc = "playlistDone"
          /\ playlistSessions' = playlistSessions \ {SessionId}
          /\ calls' = [calls EXCEPT ![c].pc = "done"]
    /\ UNCHANGED <<call, ret, pipelineVars, queueVars, gateVars, jobVars, persistVars,
                   cacheVars, downloaderVars, session, observed>>

\* a press for the record of the presses
Press(user, action) == [user |-> user, action |-> action]

\* what had left the process when the owner stopped the session
StoppedAt ==
    [submitted |-> Len(observed.submitted), documents |-> Len(observed.documents)]

\* bot.on('callback_query:data'): a button of a prompt that still shows its
\* keyboard is pressed.  stop deletes the session and editMessageText takes the
\* keyboard off that prompt; cont clears awaitingPrompt and goes on to
\* answerCallbackQuery
CallbackQuery ==
    /\ Len(observed.presses) < MaxPresses
    /\ \E prompt \in 1..Len(observed.prompts) :
          /\ observed.prompts[prompt].keyboard
          /\ \E user \in Users :
                \E action \in {"stop", "cont"} :
                   LET pressed == [observed EXCEPT
                                      !.presses = Append(@, Press(user, action))]
                   IN  IF SessionId \notin playlistSessions \/ user # session.userId
                       THEN /\ observed' = pressed
                            /\ UNCHANGED <<session, playlistSessions, calls>>
                       ELSE IF action = "stop"
                       THEN /\ playlistSessions' = playlistSessions \ {SessionId}
                            /\ observed' = [pressed EXCEPT
                                               !.prompts[prompt].keyboard = FALSE,
                                               !.stopped = StoppedAt]
                            /\ UNCHANGED <<session, calls>>
                       ELSE /\ session' = [session EXCEPT !.awaitingPrompt = FALSE]
                            /\ playlistSessions' = playlistSessions \cup {SessionId}
                            /\ calls' = Append(calls, Call("answer", TRUE))
                            /\ observed' = pressed
    /\ UNCHANGED <<call, ret, pipelineVars, queueVars, gateVars, jobVars, persistVars,
                   cacheVars, downloaderVars>>

\* await ctx.answerCallbackQuery({ text: 'On continue' }) is through:
\* enqueueNextTrack(ctx, sessionId, true)
ContinueAnswered ==
    /\ \E c \in 1..Len(calls) :
          /\ calls[c].pc = "answer"
          /\ calls' = [calls EXCEPT ![c].pc = "enter"]
    /\ UNCHANGED <<call, ret, pipelineVars, queueVars, gateVars, jobVars, persistVars,
                   cacheVars, downloaderVars, session, playlistSessions, observed>>

NextSession ==
    \/ EnqueueTrack
    \/ PromptReplied
    \/ TaskStarts
    \/ JobDownload
    \/ JobReturns
    \/ GroupReplied
    \/ AddSettled
    \/ PlaylistCaught
    \/ PlaylistDone
    \/ CallbackQuery
    \/ ContinueAnswered

SpecSession == InitSession /\ [][NextSession]_vars

-----------------------------------------------------------------------------
(* Claims about playlist sessions, checked under SpecSession *)

\* a step in which a track is handed to downloadQueue.add
SubmitStep == Len(observed'.submitted) > Len(observed.submitted)

\* the owner pressed continue this many times
ContinuePresses ==
    Cardinality({p \in 1..Len(observed.presses) :
                    /\ observed.presses[p].user = Owner
                    /\ observed.presses[p].action = "cont"})

\* C34: in a playlist session every track is handed to the download queue at
\* most once (the submissions are the tracks 0, 1, 2, ... in this order, one
\* per increment of nextIndex), and nextIndex never decreases and never
\* exceeds tracks.length, however the completions of the downloads and the
\* presses of the buttons interleave.
C34_EachTrackOnce ==
    /\ [](/\ \A i \in 1..Len(observed.submitted) : observed.submitted[i] = i - 1
          /\ Len(observed.submitted) = session.nextIndex
          /\ session.nextIndex <= Len(session.tracks))
    /\ [][session'.nextIndex >= session.nextIndex]_vars

\* continue was pressed twice on the one prompt and the twelve tracks of the
\* playlist were all submitted
C34_Witness ==
    /\ Len(session.tracks) = 12
    /\ session.nextIndex = 12
    /\ Len(observed.prompts) = 1
    /\ ContinuePresses = 2
    /\ Len(calls) = 3

\* C35: at most one prompt is sent for a chunk boundary, and a track is
\* submitted at a chunk boundary only by the call of enqueueNextTrack that a
\* press of continue by the owner made.
C35_ChunkGate ==
    /\ [](\A i, j \in 1..Len(observed.prompts) :
             i < j => observed.prompts[i].at # observed.prompts[j].at)
    /\ [][SubmitStep /\ atChunkBoundary(session.nextIndex) =>
             \E c \in 1..Len(calls) :
                calls[c].pc = "enter" /\ calls[c].force /\ calls'[c].pc # "enter"]_vars

\* a step of the callback handler for a press by someone else than the owner
ForeignPressStep ==
    /\ Len(observed'.presses) > Len(observed.presses)
    /\ observed'.presses[Len(observed'.presses)].user # session.userId

\* C36: a press by another user than the owner changes nothing of the
\* session; once the owner has pressed stop the session is not in the Map, no
\* further track is submitted and no further group is sent.
C36_StopIsFinal ==
    /\ [](observed.stopped # Null =>
             /\ SessionId \notin playlistSessions
             /\ Len(observed.submitted) = observed.stopped.submitted
             /\ Len(observed.documents) = observed.stopped.documents)
    /\ [][ForeignPressStep =>
             UNCHANGED <<session, playlistSessions, calls, queueVars>>]_vars

-----------------------------------------------------------------------------
(* downloader.js: getYtDlp and ensureYtDlpBinary.  Every call of
   downloadTrack starts with await getYtDlp(). *)

\* how many calls of downloadTrack are followed
MaxDownloadTracks == 4

\* the promise ensureYtDlpBinary().then(...) of the given call
PromiseOf(n) == [kind |-> "promise", num |-> n]

\* mutant: a rejected promise is replaced at the next call
unset_orRejected(promise, ensureCalls) ==
    \/ promise = Undefined
    \/ ensureCalls[promise.num].state = "rejected"

\* if (!ytdlpInstancePromise)
unset(promise, ensureCalls) == promise = Undefined

InitDownloader ==
    /\ call = [fn |-> "downloadTrack"]
    /\ ret = NoRet
    /\ PipelineIdle
    /\ QueueIdle
    /\ GateIdle
    /\ JobIdle
    /\ PersistIdle
    /\ CacheIdle
    /\ SessionIdle
    /\ ytdlpInstancePromise = Undefined
    /\ provisioning = <<>>
    /\ getters = <<>>

\* downloadTrack(url) up to await getYtDlp(): getYtDlp starts
\* ensureYtDlpBinary when the module variable is unset and returns the promise
\* the variable holds
GetYtDlp ==
    /\ Len(getters) < MaxDownloadTracks
    /\ IF unset(ytdlpInstancePromise, provisioning)
       THEN /\ provisioning' = Append(provisioning, [state |-> "pending"])
            /\ ytdlpInstancePromise' = PromiseOf(Len(provisioning) + 1)
       ELSE UNCHANGED <<provisioning, ytdlpInstancePromise>>
    /\ getters' = Append(getters, [pc |-> "getYtDlp",
                                   awaits |-> ytdlpInstancePromise'.num,
                                   outcome |-> "none"])
    /\ UNCHANGED <<call, ret, pipelineVars, queueVars, gateVars, jobVars, persistVars,
                   cacheVars, sessionVars>>

\* ensureYtDlpBinary settles: the configured path or the cached binary is
\* returned, the download ends, or access, mkdir, the download or chmod fails
EnsureYtDlpBinarySettles ==
    /\ \E n \in 1..Len(provisioning) :
          /\ provisioning[n].state = "pending"
          /\ \E state \in {"fulfilled", "rejected"} :
                provisioning' = [provisioning EXCEPT ![n].state = state]
    /\ UNCHANGED <<call, ret, pipelineVars, queueVars, gateVars, jobVars, persistVars,
                   cacheVars, sessionVars, ytdlpInstancePromise, getters>>

\* await getYtDlp() resumes in downloadTrack with the instance, or throws
DownloadTrackResumes ==
    /\ \E g \in 1..Len(getters) :
          /\ getters[g].pc = "getYtDlp"
          /\ provisioning[getters[g].awaits].state # "pending"
          /\ getters' = [getters EXCEPT
                            ![g].outcome = provisioning[getters[g].awaits].state,
                            ![g].pc = IF provisioning[getters[g].awaits].state
                                         = "fulfilled"
                                      THEN "mkdtemp" ELSE "thrown"]
    /\ UNCHANGED <<call, ret, pipelineVars, queueVars, gateVars, jobVars, persistVars,
                   cacheVars, sessionVars, ytdlpInstancePromise, provisioning>>

\* the rest of downloadTrack: the download into the temporary directory
DownloadTrackSettles ==
    /\ \E g \in 1..Len(getters) :
          /\ getters[g].pc = "mkdtemp"
          /\ \E settled \in {"returned", "thrown"} :
                getters' = [getters EXCEPT ![g].pc = settled]
    /\ UNCHANGED <<call, ret, pipelineVars, queueVars, gateVars, jobVars, persistVars,
                   cacheVars, sessionVars, ytdlpInstancePromise, provisioning>>

NextDownloader ==
    \/ GetYtDlp
    \/ EnsureYtDlpBinarySettles
    \/ DownloadTrackResumes
    \/ DownloadTrackSettles

SpecDownloader == InitDownloader /\ [][NextDownloader]_vars

\* C38: however many calls of downloadTrack are in flight, ensureYtDlpBinary
\* is called at most once in the life of the process, the module variable
\* keeps the promise of that call, and every caller of getYtDlp is handed the
\* outcome of that one call.
C38_ProvisionedOnce ==
    /\ [](/\ Len(provisioning) <= 1
          /\ getters # <<>> => ytdlpInstancePromise = PromiseOf(1)
          /\ \A g \in 1..Len(getters) :
                /\ getters[g].awaits = 1
                /\ getters[g].pc # "getYtDlp" =>
                      getters[g].outcome = provisioning[1].state)
    /\ [][ytdlpInstancePromise # Undefined => UNCHANGED ytdlpInstancePromise]_vars

\* provisioning failed; a call made before the failure and one made after it
\* were both handed the rejection
C38_Witness ==
    /\ Len(getters) = MaxDownloadTracks
    /\ provisioning = <<[state |-> "rejected"]>>
    /\ getters[1].pc = "thrown"
    /\ getters[2].pc = "thrown"
    /\ getters[MaxDownloadTracks].pc = "thrown"

-----------------------------------------------------------------------------
(* A claim about the two Sets of the password gate, checked under SpecGate *)

\* the handler of update m sends passwordRejected in this step
WrongPasswordStep(m) ==
    /\ m \in 1..Len(updates)
    /\ updates[m].pc = "received"
    /\ updates'[m].pc = "rejected"

\* the handler of update m ends in this step, after passwordRejected
WrongPasswordEnds(m) ==
    /\ m \in 1..Len(updates)
    /\ updates[m].pc = "rejected"
    /\ updates'[m].pc = "done"

====
